---- MODULE Spec2Model ----
(***************************************************************************)
(* PsycheLife: the guest share store (GuestShare rows written by the guest *)
(* POST routes and read by guest_share_view) and the clinical point        *)
(* projection of the life chart.                                           *)
(*                                                                         *)
(* Time is the UTC wall clock in whole minutes.  Calendar dates are day    *)
(* numbers; instants inside a day are counted in half days.                *)
(***************************************************************************)
EXTENDS Integers, Sequences, FiniteSets, TLC

\* ------------------------------------------------------------------ bounds
MaxTokens == 2
MaxNow == 45
TickStep == 15
MaxDuration == 10
VisitDay == 4000
MaxSteps == 3
MaxRows == 4
MaxEntries == 2
MaxRequests == 2

\* ------------------------------------------------------- program constants
TTL_MINUTES == 30
IST_OFFSET_MINUTES == 330
TIMEDELTA_MAX_DAYS == 999999999

Tokens == 1..MaxTokens
Posters == {"p1", "p2"}
Viewers == {"v1", "v2"}

VARIABLES
    now,            \* datetime.utcnow(), minutes
    guest_shares,   \* the guest_shares table: a set of rows
    next_id,        \* the table's autoincrement primary key
    post,           \* the guest POST requests in flight (guest_lifechart, guest_both)
    view,           \* the guest_share_view requests in flight
    served,         \* what guest_share_view answered in the last step, if it did
    posted,         \* what a guest POST request did in the last step, if it did
    issued,         \* history: tokens uuid4 has returned
    created,        \* history: id and token of every row ever committed
    origin,         \* history: the chart_data each stored row was created from
    deleted,        \* history: ids of rows deleted by a sweep or by a resolve
    expired_seen,   \* history: tokens for which a resolve answered 410
    proj            \* the chart computation under check: its input and results

vars == <<now, guest_shares, next_id, post, view, served, posted, issued, created,
          origin, deleted, expired_seen, proj>>

storeVars == <<now, guest_shares, next_id, post, view, served, posted, issued,
               created, origin, deleted, expired_seen>>

\* ------------------------------------------------------ python values, JSON
\* A python value of a chart payload: str, int, float (one fractional digit),
\* list and dict (an ordered sequence of key/value pairs).
PyStr(s) == [t |-> "str", s |-> s, n |-> 0, f |-> 0]
PyInt(n) == [t |-> "int", s |-> "", n |-> n, f |-> 0]
PyFloat(n, f) == [t |-> "float", s |-> "", n |-> n, f |-> f]
PyList(xs) == [t |-> "list", items |-> xs]
PyDict(kvs) == [t |-> "dict", items |-> kvs]
KV(k, v) == [key |-> k, val |-> v]

\* A lexeme of a JSON text.  A number lexeme has f = -1 when it is written
\* without a fraction ("5") and f >= 0 when it is written with one ("5.0").
JPunct(c) == [k |-> "punct", s |-> c, n |-> 0, f |-> 0]
JString(s) == [k |-> "str", s |-> s, n |-> 0, f |-> 0]
JNumber(n, f) == [k |-> "num", s |-> "", n |-> n, f |-> f]
\* The lexeme of a str value held as a sequence of characters.
JText(chars) == [k |-> "text", chars |-> chars]

RECURSIVE json_dumps(_)
RECURSIVE DumpItems(_, _)
RECURSIVE DumpPairs(_, _)

DumpItems(xs, i) ==
    IF i > Len(xs) THEN <<>>
    ELSE (IF i > 1 THEN <<JPunct(",")>> ELSE <<>>)
         \o json_dumps(xs[i]) \o DumpItems(xs, i + 1)

DumpPairs(kvs, i) ==
    IF i > Len(kvs) THEN <<>>
    ELSE (IF i > 1 THEN <<JPunct(",")>> ELSE <<>>)
         \o <<JString(kvs[i].key), JPunct(":")>>
         \o json_dumps(kvs[i].val) \o DumpPairs(kvs, i + 1)

json_dumps(v) ==
    CASE v.t = "str" /\ "s" \in DOMAIN v -> <<JString(v.s)>>
      [] v.t = "str" /\ "chars" \in DOMAIN v -> <<JText(v.chars)>>
      [] v.t = "int" -> <<JNumber(v.n, -1)>>
      [] v.t = "float" -> <<JNumber(v.n, v.f)>>
      [] v.t = "list" -> <<JPunct("[")>> \o DumpItems(v.items, 1) \o <<JPunct("]")>>
      [] v.t = "dict" -> <<JPunct("{")>> \o DumpPairs(v.items, 1) \o <<JPunct("}")>>

RECURSIVE ParseValue(_, _)
RECURSIVE ParseArray(_, _, _)
RECURSIVE ParseObject(_, _, _)

\* Each parser returns the value read and the index of the next lexeme.
ParseArray(toks, i, acc) ==
    IF toks[i] = JPunct("]") THEN [v |-> PyList(acc), next |-> i + 1]
    ELSE LET r == ParseValue(toks, i)
             j == IF toks[r.next] = JPunct(",") THEN r.next + 1 ELSE r.next
         IN  ParseArray(toks, j, Append(acc, r.v))

ParseObject(toks, i, acc) ==
    IF toks[i] = JPunct("}") THEN [v |-> PyDict(acc), next |-> i + 1]
    ELSE LET r == ParseValue(toks, i + 2)
             j == IF toks[r.next] = JPunct(",") THEN r.next + 1 ELSE r.next
         IN  ParseObject(toks, j, Append(acc, KV(toks[i].s, r.v)))

ParseValue(toks, i) ==
    LET tk == toks[i] IN
    CASE tk.k = "str" -> [v |-> PyStr(tk.s), next |-> i + 1]
      [] tk.k = "text" -> [v |-> [t |-> "str", chars |-> tk.chars], next |-> i + 1]
      [] tk.k = "num" /\ tk.f < 0 -> [v |-> PyInt(tk.n), next |-> i + 1]
      [] tk.k = "num" /\ tk.f >= 0 -> [v |-> PyFloat(tk.n, tk.f), next |-> i + 1]
      [] tk = JPunct("[") -> ParseArray(toks, i + 1, <<>>)
      [] tk = JPunct("{") -> ParseObject(toks, i + 1, <<>>)

json_loads(toks) == ParseValue(toks, 1).v

\* ------------------------------------------------------- the chart payloads
\* chart_data as the guest POST routes build it: four lists of point dicts.
ChartItem(name, score, phase, date) ==
    PyDict(<<KV("name", PyStr(name)), KV("score", score), KV("phase", PyStr(phase)),
             KV("note", PyStr("")), KV("date", PyStr(date))>>)

ChartData(symptoms, mse, meds, se) ==
    PyDict(<<KV("symptoms", PyList(symptoms)), KV("mse", PyList(mse)),
             KV("meds", PyList(meds)), KV("se", PyList(se))>>)

ChartPayloads ==
    { ChartData(<<>>, <<>>, <<>>, <<>>),
      ChartData(<<ChartItem("Low mood", PyInt(2), "Onset", "2024-01-01"),
                  ChartItem("Low mood", PyInt(8), "Current", "2024-01-11")>>,
                <<>>,
                <<ChartItem("Sertraline", PyFloat(12, 5), "Current", "2024-01-11")>>,
                <<>>) }

NoPayload == [t |-> "none"]

\* ---------------------------------------------------------- guest share store
\* A row of guest_shares (created_at is written and never read: left out).
GuestShare(id, token, data_json, expires_at) ==
    [id |-> id, token |-> token, data_json |-> data_json, expires_at |-> expires_at]

NoEntry == [id |-> 0]

\* The responses of guest_share_view.
ExpiredResponse == [status |-> 410, body |-> "This link has expired (30 minute limit)."]
NotFoundAsExpired == ExpiredResponse

NotFoundResponse == [status |-> 404, body |-> "Link invalid"]
ChartResponse == [status |-> 200, body |-> "life_chart.html"]

\* GuestShare.is_expired: the stored expiry against utcnow() + 5 h 30 min.
IsExpiredNoOffset(entry, utcnow) == entry.expires_at < utcnow

is_expired(entry, utcnow) == entry.expires_at < utcnow + IST_OFFSET_MINUTES

\* The rows the cleanup of the POST routes selects:
\* GuestShare.query.filter(GuestShare.expires_at < datetime.now(timezone.utc)).
SweepFilterInclusive(rows, utcnow) == {r \in rows : r.expires_at <= utcnow}

SweepFilter(rows, utcnow) == {r \in rows : r.expires_at < utcnow}

\* expiry = datetime.now(timezone.utc) + timedelta(minutes=30)
Expiry(utcnow) == utcnow + TTL_MINUTES

\* str(uuid.uuid4()): a value no earlier call returned (a 122-bit random
\* identifier, taken as unique over the life of the table).  Tokens are
\* opaque, so the fresh value is named by the least number not yet used.
Uuid4Reused(used) == Tokens

Uuid4(used) == {t \in Tokens \ used : \A u \in Tokens \ used : t <= u}

\* token = db.Column(..., unique=True): the insert is refused when a row
\* already carries the token.
UniqueTokenOk(rows, tok) == \A r \in rows : r.token # tok

\* GuestShare.query.filter_by(token=token).first()
QueryFirstStale(rows, tok) ==
    LET held == rows \cup {view[v].entry : v \in {w \in Viewers : view[w].pc = "check"}}
    IN  IF \E r \in held : r.token = tok
        THEN CHOOSE r \in held : r.token = tok /\ \A q \in held : q.token = tok => r.id <= q.id
        ELSE NoEntry

QueryFirst(rows, tok) ==
    IF \E r \in rows : r.token = tok
    THEN CHOOSE r \in rows : r.token = tok /\ \A q \in rows : q.token = tok => r.id <= q.id
    ELSE NoEntry

\* db.session.delete(entry); db.session.commit()
DeleteRowSkipped(rows, entry) == rows

DeleteRow(rows, entry) == {r \in rows : r.id # entry.id}

IdsOf(rows) == {r.id : r \in rows}

PostIdle ==
    [pc |-> "idle", token |-> 0, chart_data |-> NoPayload, expiry |-> 0]

ViewIdle ==
    [pc |-> "idle", token |-> 0, entry |-> NoEntry, original |-> NoPayload,
     gone_at_begin |-> FALSE, after_expired |-> FALSE]

\* What guest_share_view answered: the response, the payload it rendered, the
\* row it had read, and what was true of the token when the request began.
Served(v, response, payload, expired_then) ==
    [token |-> v.token, status |-> response.status, body |-> response.body,
     payload |-> payload, entry_id |-> v.entry.id, original |-> v.original,
     expired_then |-> expired_then, gone_at_begin |-> v.gone_at_begin,
     after_expired |-> v.after_expired]

NothingServed ==
    [token |-> 0, status |-> 0, body |-> "", payload |-> NoPayload, entry_id |-> 0,
     original |-> NoPayload, expired_then |-> FALSE, gone_at_begin |-> FALSE,
     after_expired |-> FALSE]

\* What a guest POST request did in one step: a cleanup that raised (flag
\* TRUE) or that deleted rows (flag FALSE), or a commit with the response
\* sent, the token and id of the row and whether another POST request was
\* between its token draw and its commit (flag).
Posted(step, status, token, id, flag) ==
    [step |-> step, status |-> status, token |-> token, id |-> id, flag |-> flag]

NothingPosted == Posted("", 0, 0, 0, FALSE)

ProjIdle == [pc |-> "off"]

InitStore ==
    /\ now = 0
    /\ guest_shares = {}
    /\ next_id = 1
    /\ post = [p \in Posters |-> PostIdle]
    /\ view = [v \in Viewers |-> ViewIdle]
    /\ served = NothingServed
    /\ posted = NothingPosted
    /\ issued = {}
    /\ created = {}
    /\ origin = <<>>
    /\ deleted = {}
    /\ expired_seen = {}

Init == InitStore /\ proj = ProjIdle

\* The history kept with a change of the table from rows to rows2.
Forget(rows, rows2) ==
    /\ deleted' = deleted \cup (IdsOf(rows) \ IdsOf(rows2))
    /\ origin' = [i \in DOMAIN origin \cap IdsOf(rows2) |-> origin[i]]

\* The wall clock advances.
Tick ==
    /\ now + TickStep <= MaxNow
    /\ now' = now + TickStep
    /\ served' = NothingServed
    /\ posted' = NothingPosted
    /\ UNCHANGED <<guest_shares, next_id, post, view, issued, created, origin,
                   deleted, expired_seen, proj>>

\* guest_lifechart / guest_both, first step: the session check (abort(403)
\* leaves the store as it is), then the cleanup of expired links inside
\* try/except (delete and commit, or rollback when the database raises),
\* after which the request goes on.
PostSweep(p) ==
    /\ post[p].pc = "idle"
    /\ \E guest \in BOOLEAN, db_ok \in BOOLEAN :
         IF ~guest
         THEN /\ posted' = NothingPosted
              /\ UNCHANGED <<post, guest_shares, deleted, origin>>
         ELSE /\ guest_shares' =
                    IF db_ok THEN guest_shares \ SweepFilter(guest_shares, now)
                    ELSE guest_shares
              /\ Forget(guest_shares, guest_shares')
              /\ posted' = IF ~db_ok THEN Posted("sweep", 0, 0, 0, TRUE)
                            ELSE IF guest_shares' # guest_shares
                            THEN Posted("sweep", 0, 0, 0, FALSE)
                            ELSE NothingPosted
              /\ post' = [post EXCEPT ![p] = [PostIdle EXCEPT !.pc = "capture"]]
    /\ served' = NothingServed
    /\ UNCHANGED <<now, next_id, view, issued, created, expired_seen, proj>>

\* Second step: the form is projected into chart_data, the token is drawn
\* and the expiry is computed from the clock.
PostCapture(p) ==
    /\ post[p].pc = "capture"
    /\ \E chart \in ChartPayloads, tok \in Uuid4(issued) :
         /\ post' = [post EXCEPT ![p] =
                       [pc |-> "commit", token |-> tok, chart_data |-> chart,
                        expiry |-> Expiry(now)]]
         /\ issued' = issued \cup {tok}
         /\ posted' = NothingPosted
    /\ served' = NothingServed
    /\ UNCHANGED <<now, guest_shares, next_id, view, created, origin, deleted,
                   expired_seen, proj>>

\* Last step: db.session.add(share_entry); db.session.commit().  The unique
\* constraint on token refuses a duplicate (IntegrityError, a 500 response).
PostCommit(p) ==
    /\ post[p].pc = "commit"
    /\ LET overlap == \E q \in Posters \ {p} : post[q].pc = "commit" IN
       IF UniqueTokenOk(guest_shares, post[p].token)
       THEN /\ guest_shares' = guest_shares \cup
                    {GuestShare(next_id, post[p].token, json_dumps(post[p].chart_data),
                                post[p].expiry)}
            /\ next_id' = next_id + 1
            /\ created' = created \cup {[id |-> next_id, token |-> post[p].token]}
            /\ origin' = [i \in DOMAIN origin \cup {next_id} |->
                            IF i = next_id THEN post[p].chart_data ELSE origin[i]]
            /\ posted' = Posted("commit", 200, post[p].token, next_id, overlap)
       ELSE /\ posted' = Posted("commit", 500, post[p].token, 0, overlap)
            /\ UNCHANGED <<guest_shares, next_id, created, origin>>
    /\ post' = [post EXCEPT ![p] = PostIdle]
    /\ served' = NothingServed
    /\ UNCHANGED <<now, view, issued, deleted, expired_seen, proj>>

\* guest_share_view, first step: the lookup by token; 404 when there is no row.
ViewQuery(v) ==
    /\ view[v].pc = "idle"
    /\ \E tok \in Tokens :
         LET entry == QueryFirst(guest_shares, tok)
             begun == [ViewIdle EXCEPT
                         !.token = tok, !.entry = entry,
                         !.original = IF entry.id \in DOMAIN origin
                                      THEN origin[entry.id] ELSE NoPayload,
                         !.gone_at_begin =
                             \E c \in created : c.token = tok /\ c.id \in deleted,
                         !.after_expired = tok \in expired_seen]
         IN  IF entry = NoEntry
             THEN /\ served' = Served(begun, NotFoundResponse, NoPayload, FALSE)
                  /\ UNCHANGED view
             ELSE /\ view' = [view EXCEPT ![v] = [begun EXCEPT !.pc = "check"]]
                  /\ served' = NothingServed
    /\ posted' = NothingPosted
    /\ UNCHANGED <<now, guest_shares, next_id, post, issued, created, origin,
                   deleted, expired_seen, proj>>

\* guest_share_view, second step: the expiry test on the row that was read;
\* an expired row is deleted and answered 410, otherwise data_json is loaded.
ViewCheck(v) ==
    /\ view[v].pc = "check"
    /\ LET entry == view[v].entry
           past == now >= entry.expires_at
       IN  IF is_expired(entry, now)
           THEN /\ guest_shares' = DeleteRow(guest_shares, entry)
                /\ Forget(guest_shares, guest_shares')
                /\ expired_seen' = expired_seen \cup {view[v].token}
                /\ served' = Served(view[v], ExpiredResponse, NoPayload, past)
           ELSE /\ served' = Served(view[v], ChartResponse,
                                    json_loads(entry.data_json), past)
                /\ UNCHANGED <<guest_shares, origin, deleted, expired_seen>>
    /\ view' = [view EXCEPT ![v] = ViewIdle]
    /\ posted' = NothingPosted
    /\ UNCHANGED <<now, next_id, post, issued, created, proj>>

Next ==
    \/ Tick
    \/ \E p \in Posters : PostSweep(p)
    \/ \E p \in Posters : PostCapture(p)
    \/ \E p \in Posters : PostCommit(p)
    \/ \E v \in Viewers : ViewQuery(v)
    \/ \E v \in Viewers : ViewCheck(v)

Spec == Init /\ [][Next]_vars

\* ------------------------------------------------------------ duration parser
\* A str whose characters matter is a sequence of one-character strings;
\* None is PyNone.
PyNone == [t |-> "none"]

\* An exception leaves the function.
Raised(name) == [t |-> "raised", name |-> name]
Str(chars) == [t |-> "str", chars |-> chars]
Timedelta(days) == [t |-> "timedelta", days |-> days]

DigitChars == <<"0", "1", "2", "3", "4", "5", "6", "7", "8", "9">>
UpperChars == <<"A", "B", "C", "D", "E", "F", "G", "H", "I", "J", "K", "L", "M",
                "N", "O", "P", "Q", "R", "S", "T", "U", "V", "W", "X", "Y", "Z">>
LowerChars == <<"a", "b", "c", "d", "e", "f", "g", "h", "i", "j", "k", "l", "m",
                "n", "o", "p", "q", "r", "s", "t", "u", "v", "w", "x", "y", "z">>
Whitespace == {" ", "\t", "\n"}

IsDigit(c) == \E i \in DOMAIN DigitChars : DigitChars[i] = c
DigitValue(c) == (CHOOSE i \in DOMAIN DigitChars : DigitChars[i] = c) - 1

\* str.lower()
LowerChar(c) ==
    IF \E i \in DOMAIN UpperChars : UpperChars[i] = c
    THEN LowerChars[CHOOSE i \in DOMAIN UpperChars : UpperChars[i] = c]
    ELSE c

Lower(chars) == [i \in DOMAIN chars |-> LowerChar(chars[i])]

\* str.strip()
Strip(chars) ==
    LET inked == {i \in DOMAIN chars : chars[i] \notin Whitespace} IN
    IF inked = {} THEN <<>>
    ELSE LET first == CHOOSE i \in inked : \A j \in inked : i <= j
             last == CHOOSE i \in inked : \A j \in inked : j <= i
         IN  SubSeq(chars, first, last)

\* The unit words of the pattern, in the order of its alternation, with the
\* number of days parse_duration gives one unit.
UnitWords ==
    << [word |-> <<"d", "a", "y">>, days |-> 1],
       [word |-> <<"w", "e", "e", "k">>, days |-> 7],
       [word |-> <<"m", "o", "n", "t", "h">>, days |-> 30],
       [word |-> <<"y", "e", "a", "r">>, days |-> 365] >>

RECURSIVE DigitsEnd(_, _)
\* The index after the run of digits that begins at i.
DigitsEnd(chars, i) ==
    IF i <= Len(chars) /\ IsDigit(chars[i]) THEN DigitsEnd(chars, i + 1) ELSE i

RECURSIVE SpaceEnd(_, _)
\* The index after the run of whitespace that begins at i.
SpaceEnd(chars, i) ==
    IF i <= Len(chars) /\ chars[i] \in Whitespace THEN SpaceEnd(chars, i + 1) ELSE i

RECURSIVE IntOf(_, _)
\* int() of a sequence of digits, acc being the value read so far.
IntOf(digits, acc) ==
    IF digits = <<>> THEN acc
    ELSE IntOf(Tail(digits), 10 * acc + DigitValue(Head(digits)))

WordAt(chars, k, word) ==
    /\ k + Len(word) - 1 <= Len(chars)
    /\ SubSeq(chars, k, k + Len(word) - 1) = word

\* The pattern (\d+)\s*(day|week|month|year)s? matched at index i: \d+ takes
\* the whole run of digits (a shorter run is followed by a digit, which is
\* neither whitespace nor the head of a unit word).
MatchesAt(chars, i) ==
    /\ IsDigit(chars[i])
    /\ \E u \in DOMAIN UnitWords :
         WordAt(chars, SpaceEnd(chars, DigitsEnd(chars, i)), UnitWords[u].word)

\* re.search: the leftmost match; group 1 as int and the days of group 2.
ReSearch(chars) ==
    LET starts == {i \in DOMAIN chars : MatchesAt(chars, i)} IN
    IF starts = {} THEN PyNone
    ELSE LET i == CHOOSE a \in starts : \A b \in starts : a <= b
             j == DigitsEnd(chars, i)
             k == SpaceEnd(chars, j)
             u == CHOOSE w \in DOMAIN UnitWords : WordAt(chars, k, UnitWords[w].word)
         IN  [t |-> "match", value |-> IntOf(SubSeq(chars, i, j - 1), 0),
              unit_days |-> UnitWords[u].days]

ParseDurationZero(duration_text) ==
    IF duration_text = PyNone \/ duration_text.chars = <<>> THEN Timedelta(0)
    ELSE IF ReSearch(Strip(Lower(duration_text.chars))) = PyNone THEN Timedelta(0)
    ELSE Timedelta(1)

\* parse_duration: None for a missing or empty text and for a text the
\* pattern does not match, otherwise the timedelta.
\* timedelta(days=...) and timedelta(weeks=...) raise OverflowError beyond
\* TIMEDELTA_MAX_DAYS days.
parse_duration(duration_text) ==
    IF duration_text = PyNone \/ duration_text.chars = <<>> THEN PyNone
    ELSE LET match == ReSearch(Strip(Lower(duration_text.chars))) IN
         IF match = PyNone THEN PyNone
         ELSE IF match.value > TIMEDELTA_MAX_DAYS \div match.unit_days
         THEN Raised("OverflowError")
         ELSE Timedelta(match.value * match.unit_days)

\* bool() of what parse_duration returns: None and timedelta(0) are false.
Truthy(delta) == delta # PyNone /\ delta.days # 0

\* life_chart.get_days
get_days(dur_str) ==
    IF dur_str = PyNone \/ dur_str.chars = <<>> THEN 0
    ELSE LET d == parse_duration(dur_str) IN IF Truthy(d) THEN d.days ELSE 0

\* ------------------------------------------------------ clinical projection
\* A clinical entry (SymptomEntry, SideEffectEntry, MSEEntry): the scores are
\* floats, score_onset and score_progression may be None.
ClinicalEntry(score_onset, score_progression, score_current, duration_text) ==
    [score_onset |-> score_onset, score_progression |-> score_progression,
     score_current |-> score_current, duration_text |-> duration_text]

\* A point of a chart dataset.  x is the text of a date: the day number and
\* the time of day that follows it (-1: none, strftime('%Y-%m-%d'); 0:
\* T00:00:00 and 1: T12:00:00, datetime.isoformat()).
Point(x, y, phase) == [x |-> x, y |-> y, phase |-> phase]

\* datetime.combine(date, datetime.min.time()), an instant in half days
Combine(date) == 2 * date

\* datetime.isoformat()
Isoformat(instant) == [date |-> instant \div 2, time |-> instant % 2]

\* date.strftime('%Y-%m-%d')
Strftime(date) == [date |-> date, time |-> -1]

\* The order of the texts of two dates, as sorted() compares the strings.
XLessEq(a, b) == a.date < b.date \/ (a.date = b.date /\ a.time <= b.time)

\* sorted(points, key=lambda x: x['x']): stable.
InsertByX(points, p) ==
    LET before == {i \in DOMAIN points : XLessEq(points[i].x, p.x)}
        k == IF before = {} THEN 0 ELSE CHOOSE i \in before : \A j \in before : j <= i
    IN  SubSeq(points, 1, k) \o <<p>> \o SubSeq(points, k + 1, Len(points))

RECURSIVE SortedByX(_)
SortedByX(points) ==
    IF points = <<>> THEN <<>>
    ELSE InsertByX(SortedByX(SubSeq(points, 1, Len(points) - 1)), points[Len(points)])

\* calculate_midpoint_date on two datetimes: start + (end - start) / 2
calculate_midpoint_date(start_date, end_date) ==
    start_date + (end_date - start_date) \div 2

\* prepare_chart_data, "1. Process Symptoms", for one entry of one visit: the
\* points appended to symptom_data[name], then the dataset's sorted data.
PrepareSymptomPoints(visit_type, date, entry) ==
    LET visit_date == Combine(date)
        text == IF entry.duration_text = PyNone THEN Str(<<>>) ELSE entry.duration_text
        parsed == parse_duration(text)
        duration == IF Truthy(parsed) THEN parsed ELSE Timedelta(0)
        onset == visit_date - 2 * duration.days
        mid == calculate_midpoint_date(onset, visit_date)
        points ==
            IF visit_type = "First"
            THEN << Point(Isoformat(onset), entry.score_onset, "Onset"),
                    Point(Isoformat(mid), entry.score_progression, "Progression"),
                    Point(Isoformat(visit_date), entry.score_current, "Current") >>
            ELSE << Point(Isoformat(visit_date), entry.score_current, "Current") >>
    IN  SortedByX(SelectSeq(points, LAMBDA p : p.y # PyNone))

\* a or b on two numbers of days
PyOr(a, b) == IF a # 0 THEN a ELSE b

\* life_chart.build_clinical_points once days is known.  date +
\* timedelta(days=days/2) adds the whole days of the timedelta.
ClinicalPoints(entry, v_date, days) ==
    LET start == IF days # 0 THEN v_date - days ELSE v_date
        onset_pts ==
            IF entry.score_onset # PyNone
            THEN <<Point(Strftime(start), entry.score_onset, "Onset")>> ELSE <<>>
        progression_pts ==
            IF entry.score_progression # PyNone /\ days > 0
            THEN <<Point(Strftime(start + days \div 2), entry.score_progression,
                         "Progression")>>
            ELSE <<>>
        current_pts ==
            IF entry.score_current # PyNone
            THEN <<Point(Strftime(v_date), entry.score_current, "Current")>> ELSE <<>>
    IN  onset_pts \o progression_pts \o current_pts

\* life_chart.build_clinical_points(entry, v_date, type_lbl); the entry has
\* no attribute 'duration', so the second get_days reads ''.
build_clinical_points(entry, v_date) ==
    ClinicalPoints(entry, v_date,
                   PyOr(get_days(entry.duration_text), get_days(Str(<<>>))))

\* life_chart: the points of one symptom entry of one visit as build_dataset
\* returns them (the visit type is not passed to build_clinical_points).
LifeChartSymptomPoints(visit_type, date, entry) ==
    SortedByX(build_clinical_points(entry, date))

\* ---- the inputs
RECURSIVE DecimalDigits(_)
\* str(n)
DecimalDigits(n) ==
    IF n < 10 THEN <<DigitChars[n + 1]>>
    ELSE DecimalDigits(n \div 10) \o <<DigitChars[(n % 10) + 1]>>

UpperChar(c) ==
    IF \E i \in DOMAIN LowerChars : LowerChars[i] = c
    THEN UpperChars[CHOOSE i \in DOMAIN LowerChars : LowerChars[i] = c]
    ELSE c

\* The ways a duration of n units is written into the form field.
DurationWritings(n, word) ==
    { DecimalDigits(n) \o <<" ">> \o word,
      DecimalDigits(n) \o <<" ">> \o word \o <<"s">>,
      DecimalDigits(n) \o word \o <<"s">>,
      <<" ">> \o DecimalDigits(n) \o <<" ", " ">>
          \o [i \in DOMAIN word |-> UpperChar(word[i])] \o <<"S", " ">>,
      <<"f", "o", "r", " ">> \o DecimalDigits(n) \o <<" ">> \o word \o <<"s">> }

\* Texts that name no duration.
OtherTexts ==
    { <<>>, <<" ">>, <<"s", "o", "o", "n">>, <<"1", "0">>, <<"d", "a", "y", "s">>,
      <<"3", " ", "h", "o", "u", "r", "s">>, <<"2", "-", "d", "a", "y", "s">> }

DurationTexts ==
    {PyNone}
    \cup {Str(c) : c \in OtherTexts}
    \cup {Str(c) : c \in UNION {DurationWritings(n, UnitWords[u].word) :
                                 n \in 0..MaxDuration, u \in DOMAIN UnitWords}}

VisitTypes == {"First", "Follow-up"}

Entries ==
    {ClinicalEntry(so, sp, sc, text) :
        so \in {PyNone, PyFloat(2, 0)}, sp \in {PyNone, PyFloat(5, 0)},
        sc \in {PyFloat(8, 0)}, text \in DurationTexts}

ProjInput(visit_type, date, entry) ==
    [pc |-> "input", visit_type |-> visit_type, date |-> date, entry |-> entry,
     prepared |-> PyNone, chart |-> PyNone]

InitProjector ==
    /\ InitStore
    /\ proj \in {ProjInput(vt, VisitDay, e) : vt \in VisitTypes, e \in Entries}

\* prepare_chart_data is computed for the visit.
PrepareChartData ==
    /\ proj.pc = "input"
    /\ proj.prepared = PyNone
    /\ proj' = [proj EXCEPT !.prepared =
                   PyList(PrepareSymptomPoints(proj.visit_type, proj.date, proj.entry))]
    /\ UNCHANGED storeVars

\* life_chart is computed for the visit.
LifeChart ==
    /\ proj.pc = "input"
    /\ proj.chart = PyNone
    /\ proj' = [proj EXCEPT !.chart =
                   PyList(LifeChartSymptomPoints(proj.visit_type, proj.date, proj.entry))]
    /\ UNCHANGED storeVars

NextProjector == PrepareChartData \/ LifeChart

SpecProjector == InitProjector /\ [][NextProjector]_vars

\* ------------------------------------------------------------ dose normalizer
\* A float with one fractional digit, from its value in tenths.
FloatOfTenths(tenths) == PyFloat(tenths \div 10, tenths % 10)

\* The alternative [-+]?\d*\.\d+ matched at index i: the index after the
\* match, or 0 when it does not match (signed says whether the sign is read).
DecimalEnd(chars, i, signed) ==
    LET a == IF signed THEN i + 1 ELSE i
        dot == DigitsEnd(chars, a)
    IN  IF /\ (signed => chars[i] \in {"-", "+"})
           /\ dot <= Len(chars) /\ chars[dot] = "."
           /\ DigitsEnd(chars, dot + 1) > dot + 1
        THEN DigitsEnd(chars, dot + 1) ELSE 0

\* float() of the text matched by the pattern from index i to index j - 1,
\* in tenths (the doses are written with at most one fractional digit).
TenthsOf(chars, i, j) ==
    LET signed == chars[i] \in {"-", "+"}
        a == IF signed THEN i + 1 ELSE i
        dot == DigitsEnd(chars, a)
        whole == IntOf(SubSeq(chars, a, dot - 1), 0)
        frac == IF dot < j THEN DigitValue(chars[dot + 1]) ELSE 0
        magnitude == 10 * whole + frac
    IN  IF signed /\ chars[i] = "-" THEN 0 - magnitude ELSE magnitude

DoseMatchEndInteger(chars, i) == IF IsDigit(chars[i]) THEN DigitsEnd(chars, i) ELSE 0

\* re.search(r"[-+]?\d*\.\d+|\d+", text): the end of the leftmost match that
\* begins at i, the first alternative tried first; 0 when none begins at i.
DoseMatchEnd(chars, i) ==
    IF DecimalEnd(chars, i, TRUE) # 0 THEN DecimalEnd(chars, i, TRUE)
    ELSE IF DecimalEnd(chars, i, FALSE) # 0 THEN DecimalEnd(chars, i, FALSE)
    ELSE IF IsDigit(chars[i]) THEN DigitsEnd(chars, i)
    ELSE 0

\* str(dose_mg) of a str or of a number held in a decoded taper step
StrOf(v) ==
    CASE v.t = "str" -> v.chars
      [] v.t = "int" -> DecimalDigits(v.n)
      [] v.t = "float" -> DecimalDigits(v.n) \o <<".">> \o DecimalDigits(v.f)

\* bool() of a value read from an entry or from a decoded taper step
Falsy(v) ==
    \/ v.t = "none"
    \/ v.t = "str" /\ v.chars = <<>>
    \/ v.t \in {"int", "float"} /\ v.n = 0 /\ v.f = 0
    \/ v.t \in {"list", "dict"} /\ v.items = <<>>

\* get_unified_dose(drug_name, dose_mg): the first numeral of the text as a
\* float, 0.0 when the dose is missing or holds no numeral.
get_unified_dose(dose_mg) ==
    IF Falsy(dose_mg) THEN FloatOfTenths(0)
    ELSE LET chars == StrOf(dose_mg)
             starts == {i \in DOMAIN chars : DoseMatchEnd(chars, i) # 0}
         IN  IF starts = {} THEN FloatOfTenths(0)
             ELSE LET i == CHOOSE a \in starts : \A b \in starts : a <= b
                  IN  FloatOfTenths(TenthsOf(chars, i, DoseMatchEnd(chars, i)))

\* ------------------------------------------------- JSON texts that may be bad
RECURSIVE ScanValue(_, _)
RECURSIVE ScanItems(_, _)
RECURSIVE ScanPairs(_, _)

\* The index after the JSON value that begins at lexeme i, 0 when the
\* lexemes from i on do not begin with a JSON value.
ScanValue(toks, i) ==
    IF i > Len(toks) THEN 0
    ELSE IF toks[i].k \in {"str", "text", "num"} THEN i + 1
    ELSE IF toks[i] = JPunct("[")
         THEN IF i + 1 <= Len(toks) /\ toks[i + 1] = JPunct("]") THEN i + 2
              ELSE ScanItems(toks, i + 1)
    ELSE IF toks[i] = JPunct("{")
         THEN IF i + 1 <= Len(toks) /\ toks[i + 1] = JPunct("}") THEN i + 2
              ELSE ScanPairs(toks, i + 1)
    ELSE 0

ScanItems(toks, i) ==
    LET r == ScanValue(toks, i) IN
    IF r = 0 \/ r > Len(toks) THEN 0
    ELSE IF toks[r] = JPunct(",") THEN ScanItems(toks, r + 1)
    ELSE IF toks[r] = JPunct("]") THEN r + 1
    ELSE 0

ScanPairs(toks, i) ==
    IF i + 1 > Len(toks) \/ toks[i].k # "str" \/ toks[i + 1] # JPunct(":") THEN 0
    ELSE LET r == ScanValue(toks, i + 2) IN
         IF r = 0 \/ r > Len(toks) THEN 0
         ELSE IF toks[r] = JPunct(",") THEN ScanPairs(toks, r + 1)
         ELSE IF toks[r] = JPunct("}") THEN r + 1
         ELSE 0

\* json.loads raises JSONDecodeError unless the text is one JSON value.
JsonDecodes(toks) == ScanValue(toks, 1) = Len(toks) + 1

\* ------------------------------------------------ medication schedule expander
\* A MedicationEntry: drug_name, dose_mg and duration_text are str or None,
\* taper_plan is None or a JSON text (a str held as its lexemes).
MedicationEntry(drug_name, dose_mg, frequency, duration_text, is_tapering, taper_plan) ==
    [drug_name |-> drug_name, dose_mg |-> dose_mg, frequency |-> frequency,
     duration_text |-> duration_text, is_tapering |-> is_tapering,
     taper_plan |-> taper_plan]

JsonText(toks) == [t |-> "json", toks |-> toks]

\* dict.get(key, default) on a decoded step that is a dict
DictGet(step, key, default) ==
    LET hits == {i \in DOMAIN step.items : step.items[i].key = key} IN
    IF hits = {} THEN default
    ELSE step.items[CHOOSE i \in hits : \A j \in hits : j <= i].val

\* get_days raises (AttributeError in parse_duration's .lower()) on a value
\* that is true and not a str.
GetDaysRaises(v) == ~Falsy(v) /\ v.t # "str"

\* get_days on a value read from an entry or a step
GetDays(v) == IF Falsy(v) THEN 0 ELSE get_days(v)

\* parse_duration on such a value
ParseDuration(v) == IF Falsy(v) THEN PyNone ELSE parse_duration(v)

\* max(1, days)
Max(a, b) == IF a >= b THEN a ELSE b

\* for i in range(duration): a point at first_date + i with the dose
DailyPoints(first_date, duration, dose) ==
    [i \in 1..duration |-> Point(Strftime(first_date + i - 1), dose, "")]

\* What "for step in plan" iterates over: the items of a list, the keys of
\* a dict; a number raises TypeError.
PlanIterRaises(plan) == plan.t \in {"int", "float"}

PlanSteps(plan) ==
    CASE plan.t = "list" -> plan.items
      [] plan.t = "dict" -> [i \in DOMAIN plan.items |-> Str(<<plan.items[i].key>>)]
      [] plan.t = "str" -> [i \in DOMAIN plan.chars |-> Str(<<plan.chars[i]>>)]

RECURSIVE BuildTaperPoints(_, _, _, _)
\* life_chart.build_med_points, the loop over the steps of the plan from
\* step i on: the points appended so far and whether a step raised.
BuildTaperPoints(steps, i, current_date, pts) ==
    IF i > Len(steps) THEN [raised |-> FALSE, pts |-> pts]
    ELSE LET step == steps[i] IN
         IF step.t # "dict" THEN [raised |-> TRUE, pts |-> pts]
         ELSE LET dur == DictGet(step, "duration_text", Str(<<>>)) IN
              IF GetDaysRaises(dur) THEN [raised |-> TRUE, pts |-> pts]
              ELSE LET duration == Max(1, GetDays(dur))
                       dose == get_unified_dose(DictGet(step, "dose_mg", Str(<<>>)))
                   IN  BuildTaperPoints(steps, i + 1, current_date + duration,
                                        pts \o DailyPoints(current_date, duration, dose))

\* life_chart.build_med_points(entry, v_date)
build_med_points(entry, v_date) ==
    LET standard ==
            DailyPoints(v_date, Max(1, GetDays(entry.duration_text)),
                        get_unified_dose(entry.dose_mg))
        plan == json_loads(entry.taper_plan.toks)
        walk == BuildTaperPoints(PlanSteps(plan), 1, v_date, <<>>)
    IN  IF entry.is_tapering /\ entry.taper_plan # PyNone /\ entry.taper_plan.toks # <<>>
        THEN IF ~JsonDecodes(entry.taper_plan.toks) THEN standard
             ELSE IF PlanIterRaises(plan) THEN standard
             ELSE IF walk.raised THEN walk.pts \o standard
             ELSE walk.pts
        ELSE standard

RECURSIVE PrepareTaperPoints(_, _, _, _)
\* prepare_chart_data, "2. Process Medications", the loop over the steps of
\* the plan: one point per step, appended to med_data[name] before the
\* step's duration is parsed; the date advances by a parsed, non-zero span.
PrepareTaperPoints(steps, i, current_date, pts) ==
    IF i > Len(steps) THEN [raised |-> FALSE, pts |-> pts]
    ELSE LET step == steps[i] IN
         IF step.t # "dict" THEN [raised |-> TRUE, pts |-> pts]
         ELSE LET dose == get_unified_dose(DictGet(step, "dose_mg", Str(<<>>)))
                  dur == DictGet(step, "duration_text", Str(<<>>))
                  appended == Append(pts, Point(Isoformat(current_date), dose, ""))
              IN  IF GetDaysRaises(dur) THEN [raised |-> TRUE, pts |-> appended]
                  ELSE LET dur_delta == ParseDuration(dur)
                           next_date == IF Truthy(dur_delta)
                                        THEN current_date + 2 * dur_delta.days
                                        ELSE current_date
                       IN  PrepareTaperPoints(steps, i + 1, next_date, appended)

\* prepare_chart_data, "2. Process Medications", for one entry of one visit:
\* the points appended to med_data[name].
PrepareMedPoints(entry, date) ==
    LET v_date == Combine(date)
        standard == <<Point(Isoformat(v_date), get_unified_dose(entry.dose_mg), "")>>
        plan == json_loads(entry.taper_plan.toks)
        walk == PrepareTaperPoints(PlanSteps(plan), 1, v_date, <<>>)
    IN  IF entry.is_tapering /\ entry.taper_plan # PyNone /\ entry.taper_plan.toks # <<>>
        THEN IF ~JsonDecodes(entry.taper_plan.toks) THEN standard
             ELSE IF PlanIterRaises(plan) THEN standard
             ELSE IF walk.raised THEN walk.pts \o standard
             ELSE walk.pts
        ELSE standard

\* prepare_chart_data: the data of the medication dataset of one entry
PrepareMedDataset(entry, date) == SortedByX(PrepareMedPoints(entry, date))

\* life_chart: the data of the medication dataset of one entry, as
\* build_dataset returns it
LifeChartMedDataset(entry, date) == SortedByX(build_med_points(entry, date))

\* ---- the inputs
DoseTexts ==
    { <<"5", "0", " ", "m", "g">>, <<"2", "5", " ", "m", "g">>,
      <<"1", "2", ".", "5", "m", "g">> }

StepDurations ==
    { <<"2", " ", "d", "a", "y", "s">>, <<"1", " ", "w", "e", "e", "k">>,
      <<"s", "o", "o", "n">>, <<>> }

EntryDurations == StepDurations \cup {<<"0", " ", "d", "a", "y", "s">>}

\* A step of a taper plan as process_visit_form_data writes it.
TaperStep(dose, frequency, duration_text, note) ==
    PyDict(<<KV("dose_mg", Str(dose)), KV("frequency", Str(frequency)),
             KV("duration_text", Str(duration_text)), KV("note", Str(note))>>)

StepKinds == {TaperStep(d, <<"O", "D">>, t, <<>>) : d \in DoseTexts, t \in StepDurations}

\* The plans process_visit_form_data writes: two steps or more.
StepLists == UNION {[1..k -> StepKinds] : k \in 2..MaxSteps}

\* A non-tapering entry, and the tapering entry of a list of steps (the
\* entry's own dose, frequency and duration_text are those of step zero).
PlainMedEntry(dose, duration_text) ==
    MedicationEntry(Str(<<"A">>), dose, Str(<<"O", "D">>), duration_text, FALSE, PyNone)

TaperingMedEntry(steps) ==
    MedicationEntry(Str(<<"A">>), DictGet(steps[1], "dose_mg", PyNone),
                    DictGet(steps[1], "frequency", PyNone),
                    DictGet(steps[1], "duration_text", PyNone),
                    TRUE, JsonText(json_dumps(PyList(steps))))

\* Taper plans that are not what process_visit_form_data writes: a text cut
\* short, a dict, a str, a number, a list whose second step is a str, a
\* list whose second step has a number as duration_text.
GoodStep == TaperStep(<<"5", "0", " ", "m", "g">>, <<"O", "D">>,
                      <<"2", " ", "d", "a", "y", "s">>, <<>>)

MalformedPlans ==
    { JsonText(<<JPunct("["), JPunct("{"), JString("dose_mg"), JPunct(":")>>),
      JsonText(json_dumps(GoodStep)),
      JsonText(json_dumps(Str(<<"n", "o">>))),
      JsonText(json_dumps(PyInt(7))),
      JsonText(json_dumps(PyList(<<GoodStep, Str(<<"s", "t", "o", "p">>)>>))),
      JsonText(json_dumps(PyList(<<GoodStep,
                    PyDict(<<KV("dose_mg", Str(<<"2", "5", " ", "m", "g">>)),
                             KV("duration_text", PyInt(5))>>)>>))) }

MedEntries ==
    {PlainMedEntry(dose, text) :
        dose \in {PyNone} \cup {Str(c) : c \in DoseTexts \cup {<<>>}},
        text \in {PyNone} \cup {Str(c) : c \in EntryDurations}}
    \cup {TaperingMedEntry(steps) : steps \in StepLists}
    \cup {[TaperingMedEntry(<<GoodStep, GoodStep>>) EXCEPT !.taper_plan = bad,
                                                            !.duration_text = Str(text)] :
            bad \in MalformedPlans, text \in EntryDurations}

MedInput(date, entry) ==
    [pc |-> "med", date |-> date, entry |-> entry, prepared |-> PyNone, chart |-> PyNone]

InitExpander ==
    /\ InitStore
    /\ proj \in {MedInput(VisitDay, e) : e \in MedEntries}

\* prepare_chart_data is computed for the visit of the medication entry.
PrepareChartDataMeds ==
    /\ proj.pc = "med"
    /\ proj.prepared = PyNone
    /\ proj' = [proj EXCEPT !.prepared = PyList(PrepareMedDataset(proj.entry, proj.date))]
    /\ UNCHANGED storeVars

\* life_chart is computed for the visit of the medication entry.
LifeChartMeds ==
    /\ proj.pc = "med"
    /\ proj.chart = PyNone
    /\ proj' = [proj EXCEPT !.chart = PyList(LifeChartMedDataset(proj.entry, proj.date))]
    /\ UNCHANGED storeVars

NextExpander == PrepareChartDataMeds \/ LifeChartMeds

SpecExpander == InitExpander /\ [][NextExpander]_vars

\* ------------------------------------------------------- taper plan detection
\* x or '' on a column that is a str or None
OrEmpty(v) == IF Falsy(v) THEN Str(<<>>) ELSE v

\* lst[i] if i < len(lst) else default (i counted from 1 here)
ItemOr(lst, i, default) == IF i <= Len(lst) THEN lst[i] ELSE default

\* name.strip().lower()
NameKey(name) == Lower(Strip(name.chars))

RECURSIVE ProcessMedicationRows(_, _, _, _)
\* process_visit_form_data, "4. Medications" (update_clinical has the same
\* loop): the rows from row i on, with the entries added so far and the
\* index of last_med among them (0: None).  A blank name is skipped and
\* leaves last_med as it is.  The notes of the rows are all ''.
ProcessMedicationRows(form, i, entries, last_med) ==
    IF i > Len(form.drug_name) THEN entries
    ELSE LET name == form.drug_name[i]
             dose == ItemOr(form.dose_full, i, Str(<<>>))
             freq == ItemOr(form.frequency, i, Str(<<>>))
             dur == ItemOr(form.med_duration, i, Str(<<>>))
         IN  IF Strip(name.chars) = <<>>
             THEN ProcessMedicationRows(form, i + 1, entries, last_med)
             ELSE IF last_med # 0 /\ NameKey(entries[last_med].drug_name) = NameKey(name)
             THEN LET old == entries[last_med]
                      loaded == IF old.taper_plan # PyNone /\ old.taper_plan.toks # <<>>
                                THEN json_loads(old.taper_plan.toks).items ELSE <<>>
                      begun == IF loaded = <<>>
                               THEN <<TaperStep(OrEmpty(old.dose_mg).chars,
                                                OrEmpty(old.frequency).chars,
                                                OrEmpty(old.duration_text).chars, <<>>)>>
                               ELSE loaded
                      taper_plan == Append(begun, TaperStep(dose.chars, freq.chars,
                                                            dur.chars, <<>>))
                  IN  ProcessMedicationRows(form, i + 1,
                          [entries EXCEPT ![last_med] =
                              [old EXCEPT !.is_tapering = TRUE,
                                          !.taper_plan = JsonText(json_dumps(PyList(taper_plan)))]],
                          last_med)
             ELSE ProcessMedicationRows(form, i + 1,
                      Append(entries, MedicationEntry(name, dose, freq, dur, FALSE, PyNone)),
                      Len(entries) + 1)

\* The medication entries a visit submission leaves in the visit.
process_visit_medications(form) == ProcessMedicationRows(form, 1, <<>>, 0)

\* ---- the inputs
DrugNames == { <<"a">>, <<"A">>, <<"a", " ">>, <<"b">>, <<" ">> }

\* A form row: the drug name with its dose and duration.
FormRows ==
    {[drug_name |-> Str(n), dose_full |-> Str(r[1]), med_duration |-> Str(r[2])] :
        n \in DrugNames,
        r \in { <<<<"5", "0", " ", "m", "g">>, <<"2", " ", "d", "a", "y", "s">>>>,
                <<<<"2", "5", " ", "m", "g">>, <<>>>> }}

\* request.form as the parallel lists getlist returns.
FormOf(rows) ==
    [drug_name |-> [i \in DOMAIN rows |-> rows[i].drug_name],
     dose_full |-> [i \in DOMAIN rows |-> rows[i].dose_full],
     frequency |-> [i \in DOMAIN rows |-> Str(<<"O", "D">>)],
     med_duration |-> [i \in DOMAIN rows |-> rows[i].med_duration]]

Forms == {FormOf(rows) : rows \in UNION {[1..k -> FormRows] : k \in 0..MaxRows}}

FormInput(form) ==
    [pc |-> "form", form |-> form, saved |-> PyNone, updated |-> PyNone]

InitTaper ==
    /\ InitStore
    /\ proj \in {FormInput(f) : f \in Forms}

\* A visit is saved: process_visit_form_data adds the medication entries.
ProcessVisitFormData ==
    /\ proj.pc = "form"
    /\ proj.saved = PyNone
    /\ proj' = [proj EXCEPT !.saved = PyList(process_visit_medications(proj.form))]
    /\ UNCHANGED storeVars

\* update_clinical replaces the medication entries of the visit.
UpdateClinical ==
    /\ proj.pc = "form"
    /\ proj.updated = PyNone
    /\ proj' = [proj EXCEPT !.updated = PyList(process_visit_medications(proj.form))]
    /\ UNCHANGED storeVars

NextTaper == ProcessVisitFormData \/ UpdateClinical

SpecTaper == InitTaper /\ [][NextTaper]_vars

\* ------------------------------------------------------------ unified averager
\* A python dict as its items in insertion order: data_map[name] = points.
DictItem(name, points) == [name |-> name, points |-> points]

\* if name not in data_map: data_map[name] = []; data_map[name].extend(pts)
Extend(data_map, name, pts) ==
    IF \E i \in DOMAIN data_map : data_map[i].name = name
    THEN [i \in DOMAIN data_map |->
            IF data_map[i].name = name
            THEN DictItem(name, data_map[i].points \o pts) ELSE data_map[i]]
    ELSE Append(data_map, DictItem(name, pts))

RECURSIVE NamedPoints(_)
\* for name, points in data_map.items(): for pt in points
NamedPoints(data_map) ==
    IF data_map = <<>> THEN <<>>
    ELSE [i \in DOMAIN data_map[1].points |->
             [name |-> data_map[1].name, pt |-> data_map[1].points[i]]]
         \o NamedPoints(Tail(data_map))

\* The float y in tenths.
FloatTenths(y) == 10 * y.n + y.f

RECURSIVE SumTenths(_)
\* sum(...) of the scores of named points, in tenths
SumTenths(named) ==
    IF named = <<>> THEN 0 ELSE FloatTenths(named[1].pt.y) + SumTenths(Tail(named))

\* v / count: the float quotient of a sum in tenths and a count
TrueDiv(tenths, count) == [t |-> "float", num |-> tenths, den |-> 10 * count]

\* round(avg, 2) of tenths / count: the float in hundredths, a tie going to
\* the even hundredth.
Round2(tenths, count) ==
    LET q == (10 * tenths) \div count
        r == (10 * tenths) % count
    IN  [t |-> "float",
         hundredths |-> IF 2 * r < count THEN q
                        ELSE IF 2 * r > count THEN q + 1
                        ELSE IF q % 2 = 0 THEN q ELSE q + 1]

RECURSIVE Ascending(_)
\* sorted() of a set of day numbers
Ascending(S) ==
    IF S = {} THEN <<>>
    ELSE LET m == CHOOSE x \in S : \A y \in S : x <= y
         IN  <<m>> \o Ascending(S \ {m})

\* {'name': name, 'score': val}
Breakdown(named) ==
    [i \in DOMAIN named |-> [name |-> named[i].name, score |-> named[i].pt.y]]

\* A point of a unified line.
UnifiedPoint(x, y, breakdown, phase) ==
    [x |-> x, y |-> y, breakdown |-> breakdown, phase |-> phase]

\* The dataset a calculate_unified returns.
UnifiedLine(data) == [t |-> "dataset", isUnified |-> TRUE, data |-> data]

ReturnUnifiedAlways(unified_points) == UnifiedLine(unified_points)

\* prepare_chart_data.calculate_unified: if not unified_points: return None
ReturnUnified(unified_points) ==
    IF unified_points = <<>> THEN PyNone ELSE UnifiedLine(unified_points)

\* prepare_chart_data.calculate_unified(data_dict, label, color): the key of
\* a point is x[:10], its day; date_phases[key] is written by every point of
\* the day, so that the last one stays.
PrepareCalculateUnified(data_dict) ==
    LET named == NamedPoints(data_dict)
        OnDay(d) == SelectSeq(named, LAMBDA p : p.pt.x.date = d)
        date_breakdown(d) == SelectSeq(OnDay(d), LAMBDA p : p.pt.y # PyNone)
        keys == {named[i].pt.x.date : i \in {j \in DOMAIN named : named[j].pt.y # PyNone}}
        days == Ascending(keys)
        unified_points ==
            [k \in DOMAIN days |->
                LET d == days[k]
                    details == date_breakdown(d)
                IN  UnifiedPoint([date |-> d, time |-> 0],
                                 Round2(SumTenths(details), Len(details)),
                                 Breakdown(details),
                                 OnDay(d)[Len(OnDay(d))].pt.phase)]
    IN  ReturnUnified(unified_points)

\* life_chart.calculate_unified(data_map, label, color): the key of a point
\* is its x; 0 + None raises TypeError.
LifeChartCalculateUnified(data_map) ==
    LET named == NamedPoints(data_map)
        OnDay(d) == SelectSeq(named, LAMBDA p : p.pt.x.date = d)
        days == Ascending({named[i].pt.x.date : i \in DOMAIN named})
        unified_points ==
            [k \in DOMAIN days |->
                LET d == days[k]
                    group == OnDay(d)
                    is_current == \E i \in DOMAIN group : group[i].pt.phase = "Current"
                IN  UnifiedPoint(Strftime(d),
                                 TrueDiv(SumTenths(group), Len(group)),
                                 Breakdown(group),
                                 IF is_current THEN "Current" ELSE "History")]
    IN  IF \E i \in DOMAIN named : named[i].pt.y = PyNone THEN Raised("TypeError")
        ELSE IF named = <<>> THEN PyNone
        ELSE UnifiedLine(unified_points)

\* build_dataset / the datasets of prepare_chart_data: one dataset per name,
\* its data sorted by x.
SortedDatasets(data_map) ==
    [i \in DOMAIN data_map |->
        [label |-> data_map[i].name, data |-> SortedByX(data_map[i].points)]]

\* ---- the visit history
\* The symptom entries of a patient's visits in the order of the visits: the
\* first visit on VisitDay, a follow-up on the next day.
HistoryVisits ==
    << [visit_type |-> "First", date |-> VisitDay],
       [visit_type |-> "Follow-up", date |-> VisitDay + 1] >>

SymptomNames == {"A", "B"}

HistoryEntries ==
    {ClinicalEntry(so, sp, PyFloat(2, 0), text) :
        so \in {PyNone, PyFloat(1, 0)}, sp \in {PyNone, PyFloat(2, 0)},
        text \in {Str(<<>>), Str(<<"2", " ", "d", "a", "y", "s">>)}}

HistoryRows ==
    {[visit |-> v, symptom_name |-> n, entry |-> e] :
        v \in DOMAIN HistoryVisits, n \in SymptomNames, e \in HistoryEntries}

Histories ==
    {h \in UNION {[1..k -> HistoryRows] : k \in 0..MaxEntries} :
        \A i \in DOMAIN h : \A j \in DOMAIN h : i < j => h[i].visit <= h[j].visit}

RECURSIVE PrepareSymptomData(_)
\* prepare_chart_data, "1. Process Symptoms": symptom_data after the rows.
\* The points of one entry are appended in the order of their dates.
PrepareSymptomData(history) ==
    IF history = <<>> THEN <<>>
    ELSE LET row == history[Len(history)]
             visit == HistoryVisits[row.visit]
         IN  Extend(PrepareSymptomData(SubSeq(history, 1, Len(history) - 1)),
                    row.symptom_name,
                    PrepareSymptomPoints(visit.visit_type, visit.date, row.entry))

RECURSIVE LifeChartSymptoms(_)
\* life_chart: symptoms after the rows.
LifeChartSymptoms(history) ==
    IF history = <<>> THEN <<>>
    ELSE LET row == history[Len(history)]
             visit == HistoryVisits[row.visit]
         IN  Extend(LifeChartSymptoms(SubSeq(history, 1, Len(history) - 1)),
                    row.symptom_name,
                    build_clinical_points(row.entry, visit.date))

\* The chart of a category: its datasets and its unified line.
Chart(datasets, unified) == [datasets |-> datasets, unified |-> unified]

\* prepare_chart_data: symptom_datasets and symptom_unified of symptom_data
PrepareChartOf(symptom_data) ==
    Chart(SortedDatasets(symptom_data), PrepareCalculateUnified(symptom_data))

\* life_chart: build_dataset(symptoms, ...) and calculate_unified(symptoms, ...)
LifeChartOf(symptoms) ==
    Chart(SortedDatasets(symptoms), LifeChartCalculateUnified(symptoms))

\* ---- the guest chart
\* An item of chart_data['symptoms'] as guest_both captures it and
\* guest_share_view reads it back: the date is date.isoformat().
GuestItem(name, score, phase, date) ==
    [name |-> name, score |-> score, phase |-> phase, date |-> Strftime(date)]

\* guest_both, "A. Symptoms": delta.  An empty duration text stands for 14
\* days, and so does one on which parse_duration raises; a text it does not
\* recognize gives None.
GuestDelta(duration_text) ==
    IF duration_text.chars = <<>> THEN Timedelta(14)
    ELSE IF parse_duration(duration_text) = Raised("OverflowError") THEN Timedelta(14)
    ELSE parse_duration(duration_text)

\* guest_both, "A. Symptoms", once delta is known: today - None raises
\* TypeError, outside the try.
GuestItemsAt(row, today, delta) ==
    IF delta = PyNone THEN Raised("TypeError")
    ELSE LET d_onset == today - delta.days
             total_days == today - d_onset
             d_prog == d_onset + total_days \div 2
         IN  << GuestItem(row.name, row.onset, "Onset", d_onset),
                GuestItem(row.name, row.prog, "Progression", d_prog),
                GuestItem(row.name, row.curr, "Current", today) >>

\* guest_both, "A. Symptoms", for one form row on the day today.
GuestSymptomItems(row, today) ==
    GuestItemsAt(row, today, GuestDelta(row.duration_text))

RECURSIVE GuestSymptoms(_, _)
\* guest_both: symptoms after the form rows
GuestSymptoms(rows, today) ==
    IF rows = <<>> THEN <<>>
    ELSE GuestSymptomItems(rows[1], today) \o GuestSymptoms(Tail(rows), today)

\* The points of guest items under their labels, as named points.
GuestNamed(items) ==
    [i \in DOMAIN items |->
        [name |-> items[i].name,
         pt |-> Point(items[i].date, items[i].score, items[i].phase)]]

RECURSIVE GuestDataMap(_)
GuestDataMap(named) ==
    IF named = <<>> THEN <<>>
    ELSE Extend(GuestDataMap(SubSeq(named, 1, Len(named) - 1)),
                named[Len(named)].name, <<named[Len(named)].pt>>)

\* guest_share_view.build_dataset(items, label_prefix): the items carry
\* their date; the data of a label is in the order of the items.
GuestBuildDataset(items) ==
    LET datasets == GuestDataMap(GuestNamed(items))
    IN  [i \in DOMAIN datasets |->
            [label |-> datasets[i].name, data |-> datasets[i].points]]

\* guest_share_view.calculate_unified(items, label, color)
GuestCalculateUnified(items) ==
    LET named == GuestNamed(items)
        OnDay(d) == SelectSeq(named, LAMBDA p : p.pt.x.date = d)
        days == Ascending({named[i].pt.x.date : i \in DOMAIN named})
        unified_points ==
            [k \in DOMAIN days |->
                LET d == days[k]
                    group_items == OnDay(d)
                    phases == {group_items[i].pt.phase : i \in DOMAIN group_items}
                IN  UnifiedPoint(Strftime(d),
                                 Round2(SumTenths(group_items), Len(group_items)),
                                 Breakdown(group_items),
                                 IF Cardinality(phases) = 1
                                 THEN CHOOSE ph \in phases : TRUE ELSE "Mixed")]
    IN  IF items = <<>> THEN PyNone
        ELSE IF \E i \in DOMAIN items : items[i].score = PyNone THEN Raised("TypeError")
        ELSE UnifiedLine(unified_points)

\* guest_share_view: build_dataset(symptoms, ...) and
\* calculate_unified(symptoms, ...)
GuestChartOf(symptoms) ==
    Chart(GuestBuildDataset(symptoms), GuestCalculateUnified(symptoms))

GuestFormRows ==
    {[name |-> n, onset |-> PyInt(o), prog |-> PyInt(2), curr |-> PyInt(2),
      duration_text |-> Str(text)] :
        n \in SymptomNames, o \in {1, 2},
        text \in { <<>>, <<"2", " ", "d", "a", "y", "s">>, <<"0", " ", "d", "a", "y", "s">> }}

GuestForms == UNION {[1..k -> GuestFormRows] : k \in 0..MaxEntries}

\* ---- the specification
HistoryInput(history) ==
    [pc |-> "history", history |-> history, prepared |-> PyNone, chart |-> PyNone]

GuestInput(rows) ==
    [pc |-> "guest", rows |-> rows, shared |-> PyNone]

InitAverager ==
    /\ InitStore
    /\ proj \in {HistoryInput(h) : h \in Histories} \cup {GuestInput(r) : r \in GuestForms}

\* prepare_chart_data: the symptom datasets and the unified symptom line.
PrepareChartDataUnified ==
    /\ proj.pc = "history"
    /\ proj.prepared = PyNone
    /\ proj' = [proj EXCEPT !.prepared = PrepareChartOf(PrepareSymptomData(proj.history))]
    /\ UNCHANGED storeVars

\* life_chart: the symptom datasets and the unified symptom line.
LifeChartUnified ==
    /\ proj.pc = "history"
    /\ proj.chart = PyNone
    /\ proj' = [proj EXCEPT !.chart = LifeChartOf(LifeChartSymptoms(proj.history))]
    /\ UNCHANGED storeVars

\* guest_both captures the symptom rows and guest_share_view charts them.
GuestShareViewUnified ==
    /\ proj.pc = "guest"
    /\ proj.shared = PyNone
    /\ proj' = [proj EXCEPT !.shared = GuestChartOf(GuestSymptoms(proj.rows, VisitDay))]
    /\ UNCHANGED storeVars

NextAverager == PrepareChartDataUnified \/ LifeChartUnified \/ GuestShareViewUnified

SpecAverager == InitAverager /\ [][NextAverager]_vars

\* ------------------------------------------------------------ the text parsers
\* What a call gave: the value it returned.
Returned(value) == [t |-> "returned", value |-> value]

\* get_unified_dose: the bare except turns any exception into 0.0.
GetUnifiedDoseCall(dose_mg) == Returned(get_unified_dose(dose_mg))

\* ---- the inputs
\* The counts written into a duration: small ones, and the ones about the
\* largest number of days a timedelta holds.
DurationCounts ==
    (0..MaxDuration) \cup {TIMEDELTA_MAX_DAYS \div 7, TIMEDELTA_MAX_DAYS \div 7 + 1,
                           TIMEDELTA_MAX_DAYS, TIMEDELTA_MAX_DAYS + 1}

\* A duration text "<n> <unit>" with the count and the unit it was written
\* from, or a text that names no duration (count -1).
DurationInputs ==
    UNION {{[text |-> Str(c), count |-> n, unit_days |-> UnitWords[u].days] :
               c \in DurationWritings(n, UnitWords[u].word)} :
           n \in DurationCounts, u \in DOMAIN UnitWords}

NoDurationInputs ==
    {[text |-> t, count |-> -1, unit_days |-> 0] :
        t \in {PyNone} \cup {Str(c) : c \in OtherTexts}}

\* The numerals of a dose text with their value in tenths: a decimal numeral
\* may carry a sign, an integer numeral does not.
DoseNumerals ==
    { [chars |-> <<"5", "0">>, tenths |-> 500],
      [chars |-> <<"7">>, tenths |-> 70],
      [chars |-> <<"1", "2", ".", "5">>, tenths |-> 125],
      [chars |-> <<"0", ".", "5">>, tenths |-> 5],
      [chars |-> <<".", "5">>, tenths |-> 5],
      [chars |-> <<"-", "2", ".", "5">>, tenths |-> -25],
      [chars |-> <<"+", ".", "5">>, tenths |-> 5] }

\* What stands before the first numeral: no digit, and no sign or dot next
\* to the numeral.
DosePrefixes == { <<>>, <<"x">>, <<"T", "a", "b", " ">>, <<"-", " ">>, <<"(">> }

\* What follows the first numeral: no digit and no dot and digit at once.
DoseSuffixes ==
    { <<>>, <<"m", "g">>, <<" ", "m", "g", " ", "B", "I", "D">>, <<"-", "1", "0", "0">>,
      <<".">>, <<" ", "2", ".", "5">> }

DoseInputs ==
    {[dose_mg |-> Str(pre \o num.chars \o suf), tenths |-> num.tenths, numeral |-> TRUE] :
        pre \in DosePrefixes, num \in DoseNumerals, suf \in DoseSuffixes}

\* A sign before an integer numeral is not part of it.
SignedIntegerInputs ==
    {[dose_mg |-> Str(<<sign>> \o <<"5">> \o suf), tenths |-> 50, numeral |-> TRUE] :
        sign \in {"-", "+"}, suf \in DoseSuffixes}

NoDoseInputs ==
    {[dose_mg |-> t, tenths |-> 0, numeral |-> FALSE] :
        t \in {PyNone, Str(<<>>), Str(<<"m", "g">>), Str(<<"-">>), Str(<<"+", ".">>),
               Str(<<"h", "a", "l", "f", " ", "t", "a", "b", "l", "e", "t">>),
               Str(<<".", ".">>)}}

DurationInput(input) == [pc |-> "duration", input |-> input, parsed |-> PyNone]

DoseInput(input) == [pc |-> "dose", input |-> input, normalized |-> PyNone]

InitText ==
    /\ InitStore
    /\ proj \in {DurationInput(i) : i \in DurationInputs \cup NoDurationInputs}
                \cup {DoseInput(i) : i \in DoseInputs \cup SignedIntegerInputs \cup NoDoseInputs}

\* parse_duration is called on the text.
ParseDurationCall ==
    /\ proj.pc = "duration"
    /\ proj.parsed = PyNone
    /\ LET result == parse_duration(proj.input.text)
       IN  proj' = [proj EXCEPT !.parsed =
                       IF result = Raised("OverflowError") THEN result ELSE Returned(result)]
    /\ UNCHANGED storeVars

\* get_unified_dose is called on the text.
NormalizeDoseCall ==
    /\ proj.pc = "dose"
    /\ proj.normalized = PyNone
    /\ proj' = [proj EXCEPT !.normalized = GetUnifiedDoseCall(proj.input.dose_mg)]
    /\ UNCHANGED storeVars

NextText == ParseDurationCall \/ NormalizeDoseCall

SpecText == InitText /\ [][NextText]_vars

\* -------------------------------------------------------- guest form capture
\* guest_both, "C. Medications": the chart item of a medication row; the
\* first match of the dose pattern as a float, 0.0 without one.
GuestMedItem(row, today) ==
    [name |-> row.name, score |-> get_unified_dose(row.dose), phase |-> "Current",
     dose |-> row.dose, date |-> Strftime(today)]

\* The request ended in an unhandled exception: nothing is stored.
Aborted(error) == [t |-> "aborted", status |-> 500, error |-> error]

\* The share was stored under a token.
Stored(chart_data) == [t |-> "stored", chart_data |-> chart_data]

\* guest_both and guest_lifechart, from the capture to the commit of the
\* share: the symptom rows, then the medication rows.
GuestCapture(form, today) ==
    IF \E i \in DOMAIN form.symptoms :
          GuestSymptomItems(form.symptoms[i], today) = Raised("TypeError")
    THEN Aborted("TypeError")
    ELSE Stored([symptoms |-> GuestSymptoms(form.symptoms, today),
                 meds |-> [i \in DOMAIN form.meds |-> GuestMedItem(form.meds[i], today)]])

\* ---- the inputs
GuestDurationTexts ==
    { <<>>, <<"2", " ", "d", "a", "y", "s">>, <<"s", "o", "o", "n">>,
      <<"a", " ", "w", "e", "e", "k">> }

GuestPostSymptomRows ==
    {[name |-> n, onset |-> PyInt(1), prog |-> PyInt(2), curr |-> PyInt(2),
      duration_text |-> Str(text)] :
        n \in SymptomNames, text \in GuestDurationTexts}

GuestPostMedRows ==
    {[name |-> "M", dose |-> Str(d)] :
        d \in { <<"5", "0", " ", "m", "g">>, <<"m", "g">>, <<>> }}

GuestPostForms ==
    {[symptoms |-> sy, meds |-> me] :
        sy \in UNION {[1..k -> GuestPostSymptomRows] : k \in 0..MaxEntries},
        me \in UNION {[1..k -> GuestPostMedRows] : k \in 0..1}}

GuestPostInput(form) ==
    [pc |-> "post", form |-> form, both |-> PyNone, lifechart |-> PyNone]

InitGuestPost ==
    /\ InitStore
    /\ proj \in {GuestPostInput(f) : f \in GuestPostForms}

\* POST /guest/both
GuestBoth ==
    /\ proj.pc = "post"
    /\ proj.both = PyNone
    /\ proj' = [proj EXCEPT !.both = GuestCapture(proj.form, VisitDay)]
    /\ UNCHANGED storeVars

\* POST /guest/lifechart
GuestLifechart ==
    /\ proj.pc = "post"
    /\ proj.lifechart = PyNone
    /\ proj' = [proj EXCEPT !.lifechart = GuestCapture(proj.form, VisitDay)]
    /\ UNCHANGED storeVars

NextGuestPost == GuestBoth \/ GuestLifechart

SpecGuestPost == InitGuestPost /\ [][NextGuestPost]_vars

\* ------------------------------------------------------- the visit's entries
\* The entry tables of the record store as one set of rows: the table (kind),
\* the primary key, the owning visit and the columns read here.
EntryRow(id, visit_id, kind, data) ==
    [id |-> id, visit_id |-> visit_id, kind |-> kind, data |-> data]

\* The session's view of the tables with the next primary key.
Tables(rows, next_key) == [rows |-> rows, next_key |-> next_key]

DeleteByVisitSkipped(db, kind, visit_id) ==
    IF kind = "mse" THEN db
    ELSE Tables({r \in db.rows : ~(r.kind = kind /\ r.visit_id = visit_id)}, db.next_key)

\* Model.query.filter_by(visit_id=visit.id).delete()
DeleteByVisit(db, kind, visit_id) ==
    Tables({r \in db.rows : ~(r.kind = kind /\ r.visit_id = visit_id)}, db.next_key)

\* db.session.add(Entry(visit_id=visit.id, ...)) for each of datas in order
AddEntries(db, kind, visit_id, datas) ==
    Tables(db.rows \cup {EntryRow(db.next_key + i - 1, visit_id, kind, datas[i]) :
                            i \in DOMAIN datas},
           db.next_key + Len(datas))

\* The rows of a form list whose name is not blank.
NonBlank(names) == SelectSeq(names, LAMBDA n : Strip(n.chars) # <<>>)

\* process_visit_form_data, "6. MSE": a row needs a category and a finding.
MseRows(rows) ==
    SelectSeq(rows, LAMBDA r : r.category.chars # <<>> /\ Strip(r.finding_name.chars) # <<>>)

\* process_visit_form_data(visit, form_data): the stressors are replaced
\* when the form carries them; personality, symptom, medication, side
\* effect and MSE entries are added.
AddStressors(db, visit_id, form) ==
    IF form.stressors = <<>> THEN db
    ELSE AddEntries(DeleteByVisit(db, "stressor", visit_id), "stressor", visit_id,
                    form.stressors)

AddClinical(db, visit_id, form) ==
    AddEntries(
        AddEntries(
            AddEntries(
                AddEntries(db, "symptom", visit_id, NonBlank(form.symptom_name)),
                "medication", visit_id, process_visit_medications(form.meds)),
            "side_effect", visit_id, NonBlank(form.side_effect_name)),
        "mse", visit_id, MseRows(form.mse))

process_visit_form_data(db, visit_id, form) ==
    AddClinical(
        AddEntries(AddStressors(db, visit_id, form), "personality", visit_id,
                   NonBlank(form.personality)),
        visit_id, form)

\* edit_visit, "3. Replace Entries": the deletes.
DeleteForEdit(db, visit_id) ==
    DeleteByVisit(
        DeleteByVisit(
            DeleteByVisit(
                DeleteByVisit(
                    DeleteByVisit(
                        DeleteByVisit(db, "symptom", visit_id),
                        "medication", visit_id),
                    "side_effect", visit_id),
                "mse", visit_id),
            "stressor", visit_id),
        "personality", visit_id)

\* edit_visit (POST): delete the visit's entries, add those of the form.
edit_visit(db, visit_id, form) ==
    process_visit_form_data(DeleteForEdit(db, visit_id), visit_id, form)

UpdateClinicalWipesSymptoms(db, visit_id, form) ==
    AddEntries(DeleteByVisit(DeleteByVisit(db, "medication", visit_id), "symptom", visit_id),
               "medication", visit_id, process_visit_medications(form.meds))

\* update_clinical, "2. Update Medications ONLY"
update_clinical(db, visit_id, form) ==
    AddEntries(DeleteByVisit(db, "medication", visit_id), "medication", visit_id,
               process_visit_medications(form.meds))

\* ---- the inputs
VisitIds == {1, 2}

MedRow(name, dose) ==
    [drug_name |-> Str(name), dose_full |-> Str(dose), med_duration |-> Str(<<>>)]

VisitForm(symptom_name, meds, side_effect_name, mse, personality, stressors) ==
    [symptom_name |-> symptom_name, meds |-> FormOf(meds),
     side_effect_name |-> side_effect_name, mse |-> mse, personality |-> personality,
     stressors |-> stressors]

VisitForms ==
    { VisitForm(<<>>, <<>>, <<>>, <<>>, <<>>, <<>>),
      VisitForm(<<Str(<<"S">>)>>, <<MedRow(<<"a">>, <<"5", "0">>)>>, <<Str(<<"E">>)>>,
                <<[category |-> Str(<<"C">>), finding_name |-> Str(<<"F">>)]>>,
                <<Str(<<"P">>)>>, <<Str(<<"T">>)>>),
      VisitForm(<<Str(<<"S">>), Str(<<" ">>), Str(<<"S">>)>>,
                <<MedRow(<<"a">>, <<"5", "0">>), MedRow(<<"A">>, <<"2", "5">>)>>,
                <<Str(<<>>)>>,
                <<[category |-> Str(<<"C">>), finding_name |-> Str(<<" ">>)]>>,
                <<>>, <<>>),
      VisitForm(<<Str(<<"R">>)>>, <<MedRow(<<"b">>, <<"2", "5">>)>>, <<>>,
                <<[category |-> Str(<<"C">>), finding_name |-> Str(<<"G">>)]>>,
                <<Str(<<"P">>)>>, <<>>) }

NoRequest == [op |-> "", visit_id |-> 0]

VisitsState(db, requests, last) ==
    [pc |-> "visits", rows |-> db.rows, next_key |-> db.next_key, requests |-> requests,
     last |-> last]

\* Each visit was saved once: add_visit and first_visit call
\* process_visit_form_data on the new visit.
InitVisits ==
    /\ InitStore
    /\ proj \in {VisitsState(process_visit_form_data(
                                process_visit_form_data(Tables({}, 1), 1, f1), 2, f2),
                             0, NoRequest) :
                    f1 \in VisitForms, f2 \in VisitForms}

\* POST /visit/<visit_id>/edit
EditVisit ==
    /\ proj.pc = "visits"
    /\ proj.requests < MaxRequests
    /\ \E visit_id \in VisitIds, form \in VisitForms :
         proj' = VisitsState(edit_visit(Tables(proj.rows, proj.next_key), visit_id, form),
                             proj.requests + 1,
                             [op |-> "edit_visit", visit_id |-> visit_id, form |-> form])
    /\ UNCHANGED storeVars

\* POST /visit/<visit_id>/update_clinical
UpdateClinicalVisit ==
    /\ proj.pc = "visits"
    /\ proj.requests < MaxRequests
    /\ \E visit_id \in VisitIds, form \in VisitForms :
         proj' = VisitsState(update_clinical(Tables(proj.rows, proj.next_key), visit_id, form),
                             proj.requests + 1,
                             [op |-> "update_clinical", visit_id |-> visit_id, form |-> form])
    /\ UNCHANGED storeVars

NextVisits == EditVisit \/ UpdateClinicalVisit

SpecVisits == InitVisits /\ [][NextVisits]_vars

\* ------------------------------------------------- the dose of a chart point
\* str.split()[0]: the first run of characters that are not whitespace
\* (<<>> when split() is empty).
FirstToken(chars) ==
    LET a == SpaceEnd(chars, 1)
        ends == {j \in a..Len(chars) : chars[j] \in Whitespace}
        b == IF ends = {} THEN Len(chars) + 1 ELSE CHOOSE j \in ends : \A k \in ends : j <= k
    IN  SubSeq(chars, a, b - 1)

\* float(token) of a token written with a sign, digits and a dot: a sign,
\* then digits, a dot and digits with a digit on one side at least, to the
\* end of the token; ValueError otherwise.
FloatOfToken(token) ==
    LET signed == token # <<>> /\ token[1] \in {"-", "+"}
        a == IF signed THEN 2 ELSE 1
        dot == DigitsEnd(token, a)
        dotted == dot <= Len(token) /\ token[dot] = "."
        end == IF dotted THEN DigitsEnd(token, dot + 1) ELSE dot
        whole == IntOf(SubSeq(token, a, dot - 1), 0)
        frac == IF dotted /\ end > dot + 1 THEN DigitValue(token[dot + 1]) ELSE 0
        magnitude == 10 * whole + frac
    IN  IF end = Len(token) + 1 /\ (dot > a \/ (dotted /\ end > dot + 1))
        THEN FloatOfTenths(IF signed /\ token[1] = "-" THEN 0 - magnitude ELSE magnitude)
        ELSE Raised("ValueError")

\* preview_lifechart.build_med_points, standard logic:
\*   dose_str = entry.dose_mg or '0'
\*   dose_val = float(dose_str.split()[0]) if dose_str.split() else 0
\* and dose_val = 0 on an exception.
PreviewDoseVal(dose_mg) ==
    LET dose_str == IF Falsy(dose_mg) THEN <<"0">> ELSE dose_mg.chars
        token == FirstToken(dose_str)
    IN  IF token = <<>> THEN PyInt(0)
        ELSE IF FloatOfToken(token) = Raised("ValueError") THEN PyInt(0)
        ELSE FloatOfToken(token)

\* preview_lifechart.build_med_points(entry, v_date) of an entry that is not
\* tapering (the tapering branch is entered when is_tapering and taper_plan
\* are set).
PreviewMedPoints(entry, v_date) ==
    DailyPoints(v_date, Max(1, GetDays(entry.duration_text)), PreviewDoseVal(entry.dose_mg))

\* The value of a number in tenths, an int and a float of the same value
\* being equal.
NumberTenths(v) == IF v.t = "int" THEN 10 * v.n ELSE FloatTenths(v)

\* ---- the inputs
\* A dose text of the form, with the tokens float() reads whole.
DosePathTexts ==
    {i.dose_mg : i \in DoseInputs \cup SignedIntegerInputs \cup NoDoseInputs}
        \cup {Str(<<"5", "0", ".">>), Str(<<" ", "7", " ", "m", "g">>), Str(<<" ">>)}

DosePathInput(dose_mg) ==
    [pc |-> "dosepath", entry |-> PlainMedEntry(dose_mg, Str(<<>>)),
     life_chart |-> <<>>, preview |-> <<>>, prepare |-> <<>>]

InitDosePaths ==
    /\ InitStore
    /\ proj \in {DosePathInput(t) : t \in DosePathTexts}

\* GET /life_chart/<patient_id>: the medication points of the entry
LifeChartDose ==
    /\ proj.pc = "dosepath"
    /\ proj.life_chart = <<>>
    /\ proj' = [proj EXCEPT !.life_chart = build_med_points(proj.entry, VisitDay)]
    /\ UNCHANGED storeVars

\* GET /preview_lifechart/<patient_id>: the medication points of the entry
PreviewLifechartDose ==
    /\ proj.pc = "dosepath"
    /\ proj.preview = <<>>
    /\ proj' = [proj EXCEPT !.preview = PreviewMedPoints(proj.entry, VisitDay)]
    /\ UNCHANGED storeVars

\* prepare_chart_data: the medication points of the entry
PrepareChartDataDose ==
    /\ proj.pc = "dosepath"
    /\ proj.prepare = <<>>
    /\ proj' = [proj EXCEPT !.prepare = PrepareMedPoints(proj.entry, VisitDay)]
    /\ UNCHANGED storeVars

NextDosePaths == LifeChartDose \/ PreviewLifechartDose \/ PrepareChartDataDose

SpecDosePaths == InitDosePaths /\ [][NextDosePaths]_vars

\* ---------------------------------------------------------------- the session
\* The keys of the Flask session read by the routes: a key that is absent
\* is FALSE (doctor_id: 0, role: "").
Session(logged_in, guest, role, doctor_id, guest_first_visit) ==
    [logged_in |-> logged_in, guest |-> guest, role |-> role, doctor_id |-> doctor_id,
     guest_first_visit |-> guest_first_visit]

\* session.clear()
SessionCleared == Session(FALSE, FALSE, "", 0, FALSE)

\* The response of a route: a page (200), a redirect (302) to a route, or
\* abort(403); guest_mode is the is_guest the page is rendered with.
Response(route, status, target, guest_mode) ==
    [route |-> route, status |-> status, target |-> target, guest_mode |-> guest_mode]

NoResponse == Response("", 0, "", FALSE)

\* The ids of the Doctor rows.
DoctorIds == {1, 2}

SessionState(doctors, session, last) ==
    [pc |-> "session", doctors |-> doctors, session |-> session, last |-> last]

InitSession ==
    /\ InitStore
    /\ proj \in {SessionState(d, SessionCleared, NoResponse) : d \in SUBSET DoctorIds}

Respond(session, response) == [proj EXCEPT !.session = session, !.last = response]

\* GET /guest/start
StartGuest ==
    /\ proj.pc = "session"
    /\ proj' = Respond(Session(FALSE, TRUE, "guest", 0, TRUE),
                       Response("start_guest", 302, "first_visit", FALSE))
    /\ UNCHANGED storeVars

\* POST /login: the hardcoded credentials (the doctor_id is set when a
\* Doctor row matches), the credentials of a Doctor row, or others.
Login ==
    /\ proj.pc = "session"
    /\ \/ \E doc \in proj.doctors \cup {0} :
            proj' = Respond([proj.session EXCEPT
                                !.logged_in = TRUE, !.role = "doctor",
                                !.doctor_id = IF doc = 0 THEN @ ELSE doc],
                            Response("login", 302, "dashboard", FALSE))
       \/ proj' = Respond(proj.session, Response("login", 302, "landing", FALSE))
    /\ UNCHANGED storeVars

\* GET /logout
Logout ==
    /\ proj.pc = "session"
    /\ proj' = Respond(SessionCleared, Response("logout", 302, "landing", FALSE))
    /\ UNCHANGED storeVars

\* login_required: 'logged_in' not in session and 'guest' not in session
LoginRequiredRejects(session) == ~session.logged_in /\ ~session.guest

\* Doctor.query.get(doc_id) if doc_id is not None else None
DoctorFound(doctors, doc_id) == doc_id # 0 /\ doc_id \in doctors

\* GET /first_visit behind login_required: without a doctor the session is
\* cleared and the browser sent to the landing page.
FirstVisitGet ==
    /\ proj.pc = "session"
    /\ proj' =
         IF LoginRequiredRejects(proj.session)
         THEN Respond(proj.session, Response("first_visit", 302, "landing", FALSE))
         ELSE IF ~DoctorFound(proj.doctors, proj.session.doctor_id)
         THEN Respond(SessionCleared, Response("first_visit", 302, "landing", FALSE))
         ELSE Respond(proj.session,
                      Response("first_visit", 200, "", proj.session.role = "guest"))
    /\ UNCHANGED storeVars

\* POST /guest/lifechart: if not session.get('guest'): abort(403)
GuestLifechartPost ==
    /\ proj.pc = "session"
    /\ proj' =
         IF ~proj.session.guest
         THEN Respond(proj.session, Response("guest_lifechart", 403, "", FALSE))
         ELSE Respond(proj.session, Response("guest_lifechart", 302, "guest_share_view", TRUE))
    /\ UNCHANGED storeVars

\* POST /guest/both: the same test, and guest_first_visit is popped.
GuestBothPost ==
    /\ proj.pc = "session"
    /\ proj' =
         IF ~proj.session.guest
         THEN Respond(proj.session, Response("guest_both", 403, "", FALSE))
         ELSE Respond([proj.session EXCEPT !.guest_first_visit = FALSE],
                      Response("guest_both", 200, "", TRUE))
    /\ UNCHANGED storeVars

NextSession ==
    \/ StartGuest
    \/ Login
    \/ Logout
    \/ FirstVisitGet
    \/ GuestLifechartPost
    \/ GuestBothPost

SpecSession == InitSession /\ [][NextSession]_vars

\* ------------------------------------------------------ the progression date
\* One First-visit symptom with its three scores and a duration text, as the
\* stored entry charted by prepare_chart_data and life_chart and as the row
\* of the guest form projected by guest_both, on the day VisitDay.
MidpointInput(text) ==
    [pc |-> "midpoint", text |-> text, prepared |-> PyNone, chart |-> PyNone,
     guest |-> PyNone]

MidpointEntry(text) == ClinicalEntry(PyFloat(2, 0), PyFloat(5, 0), PyFloat(8, 0), text)

MidpointRow(text) ==
    [name |-> "A", onset |-> PyInt(2), prog |-> PyInt(5), curr |-> PyInt(8),
     duration_text |-> text]

InitMidpoint ==
    /\ InitStore
    /\ proj \in {MidpointInput(t) : t \in DurationTexts \ {PyNone}}

\* The dates of the points of each phase.
PhaseDates(points) ==
    [phase \in {"Onset", "Progression", "Current"} |->
        {points[i].x.date : i \in {j \in DOMAIN points : points[j].phase = phase}}]

GuestPhaseDates(items) ==
    [phase \in {"Onset", "Progression", "Current"} |->
        {items[i].date.date : i \in {j \in DOMAIN items : items[j].phase = phase}}]

\* prepare_chart_data on the First visit
PrepareChartDataDates ==
    /\ proj.pc = "midpoint"
    /\ proj.prepared = PyNone
    /\ proj' = [proj EXCEPT !.prepared =
                   Returned(PhaseDates(
                       PrepareSymptomPoints("First", VisitDay, MidpointEntry(proj.text))))]
    /\ UNCHANGED storeVars

\* life_chart on the First visit
LifeChartDates ==
    /\ proj.pc = "midpoint"
    /\ proj.chart = PyNone
    /\ proj' = [proj EXCEPT !.chart =
                   Returned(PhaseDates(
                       LifeChartSymptomPoints("First", VisitDay, MidpointEntry(proj.text))))]
    /\ UNCHANGED storeVars

\* The dates guest_both sets, or the exception that ends the request.
GuestDates(items) ==
    IF items = Raised("TypeError") THEN items ELSE Returned(GuestPhaseDates(items))

\* guest_both on the form row, today being VisitDay
GuestBothDates ==
    /\ proj.pc = "midpoint"
    /\ proj.guest = PyNone
    /\ proj' = [proj EXCEPT !.guest =
                   GuestDates(GuestSymptomItems(MidpointRow(proj.text), VisitDay))]
    /\ UNCHANGED storeVars

NextMidpoint == PrepareChartDataDates \/ LifeChartDates \/ GuestBothDates

SpecMidpoint == InitMidpoint /\ [][NextMidpoint]_vars

\* ---------------------------------------------------------------- claims
\* A response of guest_share_view for a row it had read.
ServedRow == served.status # 0 /\ served.entry_id # 0

\* C1: a resolve of a created entry before its expiry (from the create up to
\* 30 minutes later) answers with the chart, not with 404 and not with 410.
C1_ResolveBeforeExpiryServesChart ==
    (ServedRow /\ ~served.expired_then) => served.status = ChartResponse.status

\* C2: no resolve returns a payload for an entry whose expires_at is at or
\* before the clock at the time of the test, swept or not.
C2_NoPayloadAtOrAfterExpiry ==
    (ServedRow /\ served.expired_then) =>
        (served.status # ChartResponse.status /\ served.payload = NoPayload)

C2_Witness ==
    ServedRow /\ served.expired_then /\ served.status = ExpiredResponse.status

\* C3: a resolve that answers Expired has removed the row, and every resolve
\* of that token that begins afterwards answers NotFound.
C3_ExpiredIsDeleted ==
    /\ served.status = ExpiredResponse.status =>
           \A r \in guest_shares : r.id # served.entry_id /\ r.token # served.token
    /\ (served.status # 0 /\ served.after_expired) =>
           (served.status = NotFoundResponse.status /\ served.payload = NoPayload)

C3_Witness ==
    served.after_expired /\ served.status = NotFoundResponse.status

\* C4: a resolve whose lookup finds no row with the token answers NotFound,
\* which is not the Expired answer, and leaves the table as it was; a lookup
\* goes on to the expiry test only with a row of the table that carries the
\* token.
C4_NotFoundLeavesStore ==
    [][/\ (served'.status # 0 /\ served'.entry_id = 0) =>
            /\ \A r \in guest_shares : r.token # served'.token
            /\ served'.status = NotFoundResponse.status
            /\ served'.body = NotFoundResponse.body
            /\ served'.status # ExpiredResponse.status
            /\ served'.body # ExpiredResponse.body
            /\ served'.payload = NoPayload
            /\ guest_shares' = guest_shares
       /\ \A v \in Viewers :
            (view[v].pc = "idle" /\ view'[v].pc = "check") =>
                (view'[v].entry \in guest_shares
                 /\ view'[v].entry.token = view'[v].token)]_vars

C4_Witness ==
    /\ served.status = NotFoundResponse.status
    /\ guest_shares # {}
    /\ \A r \in guest_shares : r.token # served.token

\* C5: a resolve of a created entry before its expiry yields a payload equal
\* to the chart_data the create was given.
C5_RoundTrip ==
    (ServedRow /\ ~served.expired_then) => served.payload = served.original

\* C6: no two rows carry the same token, and the token a create returned
\* addresses the row of that create and no other row, also when the creates
\* overlap.
C6_TokensNeverCollide ==
    /\ \A r1, r2 \in guest_shares : r1.token = r2.token => r1 = r2
    /\ \A c \in created : \A r \in guest_shares : r.token = c.token => r.id = c.id
    /\ (posted.step = "commit" /\ posted.status = 200) =>
           /\ QueryFirst(guest_shares, posted.token).id = posted.id
           /\ json_loads(QueryFirst(guest_shares, posted.token).data_json)
                  = origin[posted.id]

C6_Witness ==
    /\ posted.step = "commit" /\ posted.status = 200 /\ posted.flag
    /\ \E p \in Posters : post[p].pc = "commit" /\ post[p].token # posted.token

\* C7: a resolve that begins after the row of its token was deleted (by a
\* cleanup or by another resolve) reads no row and answers NotFound without a
\* payload; any other answer is for a row that was read before it was deleted.
C7_NoServeAfterDelete ==
    /\ (served.status # 0 /\ served.gone_at_begin) =>
           /\ served.status = NotFoundResponse.status
           /\ served.entry_id = 0
           /\ served.payload = NoPayload
    /\ (served.status # 0 /\ served.status # NotFoundResponse.status) =>
           (served.entry_id # 0 /\ ~served.gone_at_begin)

C7_Witness ==
    /\ served.status = NotFoundResponse.status
    /\ served.gone_at_begin /\ ~served.after_expired
    /\ \E v \in Viewers : view[v].pc = "check"

\* C8: a cleanup that runs at time now leaves no row with expires_at < now and
\* keeps every row with expires_at >= now as it was; a cleanup that raises
\* leaves the table as it was, and in both cases the request goes on to its
\* create.
C8_SweepPostcondition ==
    [][/\ \A p \in Posters :
            (post[p].pc = "idle" /\ post'[p].pc # "idle") =>
                /\ post'[p].pc = "capture"
                /\ IF posted'.step = "sweep" /\ posted'.flag
                   THEN guest_shares' = guest_shares
                   ELSE /\ \A r \in guest_shares' : ~(r.expires_at < now)
                        /\ \A r \in guest_shares : r.expires_at >= now => r \in guest_shares'
                        /\ guest_shares' \subseteq guest_shares
       /\ posted'.step = "sweep" =>
            \E p \in Posters : post[p].pc = "idle" /\ post'[p].pc = "capture"]_vars

C8_Witness ==
    /\ posted.step = "sweep" /\ ~posted.flag
    /\ \E r \in guest_shares : r.expires_at = now
    /\ \E p \in Posters : post[p].pc = "capture"

\* C9: the create, the resolve and the cleanup read one clock: for every row
\* and every instant, the cleanup's test and the resolve's test agree on
\* whether the row's expires_at has passed.
C9_OneClock ==
    \A r \in guest_shares : (r \in SweepFilter(guest_shares, now)) <=> is_expired(r, now)

\* The entry of the projection is a First-visit entry with the three scores
\* and a duration text that parses.
C10_Case ==
    /\ proj.pc = "input"
    /\ proj.visit_type = "First"
    /\ proj.entry.score_onset # PyNone
    /\ proj.entry.score_progression # PyNone
    /\ proj.entry.score_current # PyNone
    /\ parse_duration(proj.entry.duration_text) # PyNone

\* Onset at D - d, Progression on the day of the midpoint, Current at D.
C10_ThreePoints(points, entry, D, d) ==
    /\ Len(points) = 3
    /\ points[1].phase = "Onset" /\ points[1].y = entry.score_onset
    /\ points[1].x.date = D - d
    /\ points[2].phase = "Progression" /\ points[2].y = entry.score_progression
    /\ points[2].x.date \in {D - d + d \div 2, D - d \div 2}
    /\ points[3].phase = "Current" /\ points[3].y = entry.score_current
    /\ points[3].x.date = D

\* C10: for a First visit on date D and an entry with the three scores and a
\* duration text that parses to d days, each projection (prepare_chart_data
\* and life_chart) emits exactly three points: Onset at D - d, Progression at
\* the midpoint of D - d and D, Current at D, with the entry's scores.
C10_FirstVisitThreePoints ==
    C10_Case =>
        LET d == parse_duration(proj.entry.duration_text).days IN
        /\ proj.prepared # PyNone =>
               C10_ThreePoints(proj.prepared.items, proj.entry, proj.date, d)
        /\ proj.chart # PyNone =>
               C10_ThreePoints(proj.chart.items, proj.entry, proj.date, d)

\* The entry of the projection belongs to a Follow-up visit.
C11_Case == proj.pc = "input" /\ proj.visit_type = "Follow-up"

\* Exactly one point: Current at D with score_current.
C11_OnePoint(points, entry, D) ==
    /\ Len(points) = 1
    /\ points[1].phase = "Current" /\ points[1].y = entry.score_current
    /\ points[1].x.date = D

\* C11: for a Follow-up visit on date D each projection (prepare_chart_data
\* and life_chart) emits exactly one point for the entry, at D with
\* score_current and phase Current, whatever score_onset, score_progression
\* and the duration text are.
C11_FollowUpOnePoint ==
    C11_Case =>
        /\ proj.prepared # PyNone =>
               C11_OnePoint(proj.prepared.items, proj.entry, proj.date)
        /\ proj.chart # PyNone =>
               C11_OnePoint(proj.chart.items, proj.entry, proj.date)

HasPhase(points, phase) == \E i \in DOMAIN points : points[i].phase = phase

\* The points of a First-visit entry: Onset iff score_onset, Progression iff
\* score_progression, always Current, and no point without a value.
C12_Emitted(points, entry) ==
    /\ HasPhase(points, "Onset") <=> entry.score_onset # PyNone
    /\ HasPhase(points, "Progression") <=> entry.score_progression # PyNone
    /\ HasPhase(points, "Current")
    /\ \A i \in DOMAIN points : points[i].y # PyNone

\* C12: for a First-visit entry and any duration text (empty or unparseable
\* included) each projection emits an Onset point iff score_onset is
\* non-null, a Progression point iff score_progression is non-null, and
\* always a Current point; no emitted point has a null value.
C12_PointsIffScores ==
    (proj.pc = "input" /\ proj.visit_type = "First") =>
        /\ proj.prepared # PyNone => C12_Emitted(proj.prepared.items, proj.entry)
        /\ proj.chart # PyNone => C12_Emitted(proj.chart.items, proj.entry)

\* The medication entry under check is expanded without a taper plan.
C13_Case ==
    /\ proj.pc = "med"
    /\ ~(proj.entry.is_tapering /\ proj.entry.taper_plan # PyNone)

\* max(1, n) points at D, D + 1, ..., all with the entry's normalized dose.
C13_Flat(points, entry, D) ==
    LET n == GetDays(entry.duration_text) IN
    /\ Len(points) = Max(1, n)
    /\ \A i \in DOMAIN points :
         /\ points[i].x.date = D + i - 1
         /\ points[i].y = get_unified_dose(entry.dose_mg)

\* C13: for a non-tapering medication entry on visit date D whose duration
\* text parses to n days (0 when it does not parse), each expansion
\* (prepare_chart_data and life_chart) emits exactly max(1, n) points, at the
\* consecutive dates D .. D + max(1, n) - 1, all with the normalized dose.
C13_FlatDailyLine ==
    C13_Case =>
        /\ proj.prepared # PyNone => C13_Flat(proj.prepared.items, proj.entry, proj.date)
        /\ proj.chart # PyNone => C13_Flat(proj.chart.items, proj.entry, proj.date)

\* The taper plan of the entry is a list of step records with str durations.
WellFormedPlan(entry) ==
    /\ entry.taper_plan # PyNone
    /\ JsonDecodes(entry.taper_plan.toks)
    /\ LET plan == json_loads(entry.taper_plan.toks) IN
       /\ plan.t = "list"
       /\ \A i \in DOMAIN plan.items :
            /\ plan.items[i].t = "dict"
            /\ ~GetDaysRaises(DictGet(plan.items[i], "duration_text", Str(<<>>)))

C14_Case == proj.pc = "med" /\ proj.entry.is_tapering /\ WellFormedPlan(proj.entry)

\* max(1, days_i) of step i
C14_StepDays(step) == Max(1, GetDays(DictGet(step, "duration_text", Str(<<>>))))

RECURSIVE C14_DaysBefore(_, _)
\* The days covered by the steps before step i.
C14_DaysBefore(steps, i) ==
    IF i = 1 THEN 0 ELSE C14_DaysBefore(steps, i - 1) + C14_StepDays(steps[i - 1])

\* One point per day from D on, day by day, no date twice and none missing,
\* each at the dose of the step that covers the day.
C14_Contiguous(points, steps, D) ==
    /\ Len(points) = C14_DaysBefore(steps, Len(steps) + 1)
    /\ \A n \in DOMAIN points :
         /\ points[n].x.date = D + n - 1
         /\ \E i \in DOMAIN steps :
              /\ C14_DaysBefore(steps, i) < n
              /\ n <= C14_DaysBefore(steps, i + 1)
              /\ points[n].y = get_unified_dose(DictGet(steps[i], "dose_mg", Str(<<>>)))

\* C14: for a tapering medication entry on visit date D with steps s_1..s_k,
\* each expansion emits one point per day, step s_i covering the
\* max(1, days_i) consecutive dates that follow the end of s_(i-1) (s_1 from
\* D) at the dose of s_i: contiguous, no date twice, no day missing, an
\* unparseable duration counting as 1 day.
C14_TaperContiguous ==
    C14_Case =>
        LET steps == json_loads(proj.entry.taper_plan.toks).items IN
        /\ proj.prepared # PyNone => C14_Contiguous(proj.prepared.items, steps, proj.date)
        /\ proj.chart # PyNone => C14_Contiguous(proj.chart.items, steps, proj.date)

C15_Case ==
    /\ proj.pc = "med"
    /\ proj.entry.is_tapering
    /\ proj.entry.taper_plan # PyNone
    /\ ~WellFormedPlan(proj.entry)

\* The entry without its taper plan.
C15_Plain(entry) == [entry EXCEPT !.is_tapering = FALSE, !.taper_plan = PyNone]

\* C15: when the entry is marked tapering and its taper plan is malformed
\* (not decodable, not a list of step records, or a later step malformed
\* after valid steps), each expansion's output is exactly its non-tapering
\* output for the entry's own dose and duration, with no point left over
\* from the part of the plan that was processed.
C15_MalformedPlanFallsBack ==
    C15_Case =>
        /\ proj.prepared # PyNone =>
             proj.prepared.items = PrepareMedDataset(C15_Plain(proj.entry), proj.date)
        /\ proj.chart # PyNone =>
             proj.chart.items = LifeChartMedDataset(C15_Plain(proj.entry), proj.date)

C16_Blank(form, i) == Strip(form.drug_name[i].chars) = <<>>

C16_Same(form, i, j) == NameKey(form.drug_name[i]) = NameKey(form.drug_name[j])

\* Row i begins a maximal run of consecutive non-blank rows of one drug name.
C16_RunStart(form, i) ==
    /\ ~C16_Blank(form, i)
    /\ i = 1 \/ C16_Blank(form, i - 1) \/ ~C16_Same(form, i - 1, i)

\* The rows s .. e are non-blank rows of one drug name.
C16_Run(form, s, e) ==
    \A j \in s..e : ~C16_Blank(form, j) /\ C16_Same(form, s, j)

\* The last row of the run that begins at s.
C16_RunEnd(form, s) ==
    CHOOSE e \in s..Len(form.drug_name) :
        /\ C16_Run(form, s, e)
        /\ e = Len(form.drug_name) \/ ~C16_Run(form, s, e + 1)

C16_StepOfRow(form, j) ==
    TaperStep(form.dose_full[j].chars, form.frequency[j].chars,
              form.med_duration[j].chars, <<>>)

\* The entries are those of the runs, in order: one entry per run, with the
\* first row's dose, frequency and duration; tapering with one step per row
\* iff the run has two rows or more, step zero being the entry's own values.
C16_EntriesOfRuns(entries, form) ==
    LET starts == {i \in DOMAIN form.drug_name : C16_RunStart(form, i)} IN
    /\ Len(entries) = Cardinality(starts)
    /\ \A s \in starts :
         LET k == Cardinality({t \in starts : t <= s})
             e == C16_RunEnd(form, s)
             entry == entries[k]
         IN  /\ entry.drug_name = form.drug_name[s]
             /\ entry.dose_mg = form.dose_full[s]
             /\ entry.frequency = form.frequency[s]
             /\ entry.duration_text = form.med_duration[s]
             /\ entry.is_tapering = (e > s)
             /\ IF e > s
                THEN /\ entry.taper_plan # PyNone
                     /\ JsonDecodes(entry.taper_plan.toks)
                     /\ json_loads(entry.taper_plan.toks) =
                            PyList([n \in 1..(e - s + 1) |-> C16_StepOfRow(form, s + n - 1)])
                ELSE entry.taper_plan = PyNone

ChartsUnderCheck ==
    (IF proj.pc = "history" /\ proj.prepared # PyNone
     THEN {[chart |-> proj.prepared, named |-> NamedPoints(PrepareSymptomData(proj.history))]}
     ELSE {})
    \cup (IF proj.pc = "history" /\ proj.chart # PyNone
          THEN {[chart |-> proj.chart, named |-> NamedPoints(LifeChartSymptoms(proj.history))]}
          ELSE {})
    \cup (IF proj.pc = "guest" /\ proj.shared # PyNone
          THEN {[chart |-> proj.shared,
                 named |-> GuestNamed(GuestSymptoms(proj.rows, VisitDay))]}
          ELSE {})

Valued(named) == SelectSeq(named, LAMBDA p : p.pt.y # PyNone)

\* y is the quotient tenths / (10 * count)
C17_IsMean(y, tenths, count) ==
    IF "hundredths" \in DOMAIN y THEN y.hundredths * count = 10 * tenths
    ELSE y.num * 10 * count = tenths * y.den

\* The same pairs, each as many times in a as in b.
C17_SamePairs(a, b) ==
    /\ Len(a) = Len(b)
    /\ \A i \in DOMAIN a :
         Cardinality({j \in DOMAIN a : a[j] = a[i]}) = Cardinality({j \in DOMAIN b : b[j] = a[i]})

C17_Averages(c) ==
    LET valued == Valued(c.named)
        days == {valued[i].pt.x.date : i \in DOMAIN valued}
        data == IF c.chart.unified = PyNone THEN <<>> ELSE c.chart.unified.data
    IN  /\ c.chart.unified # Raised("TypeError")
        /\ Len(data) = Cardinality(days)
        /\ \A d \in days :
             LET group == SelectSeq(valued, LAMBDA p : p.pt.x.date = d)
             IN  \E k \in DOMAIN data :
                    /\ data[k].x.date = d
                    /\ C17_IsMean(data[k].y, SumTenths(group), Len(group))
                    /\ C17_SamePairs(data[k].breakdown, Breakdown(group))

\* C17: for any set of named series of one category the unified averager
\* gives exactly one unified point per distinct calendar date among the input
\* points, whose value is the arithmetic mean of all the values on that date
\* and whose breakdown has one (name, value) pair per contributing point.
C17_OnePointPerDateWithMean == \A c \in ChartsUnderCheck : C17_Averages(c)

Phases == {"Onset", "Progression", "Current"}

C18_Phase(c) ==
    LET valued == Valued(c.named)
        data == IF c.chart.unified = PyNone THEN <<>> ELSE c.chart.unified.data
    IN  \A k \in DOMAIN data :
            LET group == SelectSeq(valued, LAMBDA p : p.pt.x.date = data[k].x.date)
                labels == {group[i].pt.phase : i \in DOMAIN group}
            IN  IF Cardinality(labels) > 1 THEN data[k].phase \notin Phases
                ELSE data[k].phase \in labels

\* C18: the phase of a unified point is the "mixed" sentinel when the points
\* of its date group carry more than one distinct phase label, and the single
\* shared phase label otherwise.
C18_MixedOrSharedPhase == \A c \in ChartsUnderCheck : C18_Phase(c)

C20_Ascending(data) ==
    \A i \in DOMAIN data : \A j \in DOMAIN data : i < j => XLessEq(data[i].x, data[j].x)

\* C20: in the output of aggregation the points of every named series and of
\* every unified series are in non-decreasing date order, whatever the order
\* in which the visits and entries were processed.
C20_SeriesInDateOrder ==
    \A c \in ChartsUnderCheck :
        /\ \A i \in DOMAIN c.chart.datasets : C20_Ascending(c.chart.datasets[i].data)
        /\ c.chart.unified # PyNone => C20_Ascending(c.chart.unified.data)

\* C21: for every input "<n> <unit>" with unit day, week, month or year
\* (singular or plural, any letter case, optional surrounding whitespace) the
\* duration parser returns a span of n*1, n*7, n*30 and n*365 days.
C21_SpanOfCountAndUnit ==
    (proj.pc = "duration" /\ proj.input.count >= 0 /\ proj.parsed # PyNone) =>
        /\ proj.parsed.t = "returned"
        /\ proj.parsed.value # PyNone
        /\ proj.parsed.value.days \div proj.input.unit_days = proj.input.count
        /\ proj.parsed.value.days % proj.input.unit_days = 0

\* C22: for an empty or missing input and for any text with no integer
\* followed by a recognized unit word the duration parser returns "no
\* duration" (None) as a normal result and raises no error.
C22_NoMatchIsNone ==
    (proj.pc = "duration" /\ proj.input.count < 0 /\ proj.parsed # PyNone) =>
        proj.parsed = Returned(PyNone)

\* A text with digits and no unit was parsed to None.
C22_Witness ==
    /\ proj.pc = "duration"
    /\ proj.input.text = Str(<<"3", " ", "h", "o", "u", "r", "s">>)
    /\ proj.parsed = Returned(PyNone)

\* C23: for every dose text the dose normalizer returns the value of the
\* first decimal or integer numeral of the text, and zero when the text has
\* no numeral or is missing or empty; it never raises.
C23_FirstNumeralOrZero ==
    (proj.pc = "dose" /\ proj.normalized # PyNone) =>
        proj.normalized = Returned(FloatOfTenths(proj.input.tenths))

\* A decimal numeral inside a text was read, and a text without a numeral
\* gave zero.
C23_Witness ==
    /\ proj.pc = "dose"
    /\ proj.input.dose_mg = Str(<<"T", "a", "b", " ", "1", "2", ".", "5", "m", "g">>)
    /\ proj.normalized = Returned(PyFloat(12, 5))

C24_Completes(result, form) ==
    /\ result.t = "stored"
    /\ Len(result.chart_data.symptoms) = 3 * Len(form.symptoms)
    /\ Len(result.chart_data.meds) = Len(form.meds)

\* C24: for every guest form submission, symptom rows with a non-empty
\* unparseable duration text and medication rows with a dose text without
\* numeral included, the projection completes and its chart payload is
\* stored under a token; a parsing failure never aborts the request.
C24_GuestSubmissionCompletes ==
    proj.pc = "post" =>
        /\ proj.both # PyNone => C24_Completes(proj.both, proj.form)
        /\ proj.lifechart # PyNone => C24_Completes(proj.lifechart, proj.form)

RECURSIVE InKeyOrder(_)
\* The data of rows in the order of their primary keys.
InKeyOrder(rows) ==
    IF rows = {} THEN <<>>
    ELSE LET r == CHOOSE a \in rows : \A b \in rows : a.id <= b.id
         IN  <<r.data>> \o InKeyOrder(rows \ {r})

OwnedBy(rows, visit_id, kind) == {r \in rows : r.visit_id = visit_id /\ r.kind = kind}

ClinicalKinds == {"symptom", "medication", "side_effect", "mse"}

\* The step is a request op that has just been served.
C25_Served(op) ==
    proj.pc = "visits" /\ proj'.requests = proj.requests + 1 /\ proj'.last.op = op

C25_Replaced ==
    LET v == proj'.last.visit_id
        form == proj'.last.form
    IN  /\ InKeyOrder(OwnedBy(proj'.rows, v, "symptom")) = NonBlank(form.symptom_name)
        /\ InKeyOrder(OwnedBy(proj'.rows, v, "medication")) = process_visit_medications(form.meds)
        /\ InKeyOrder(OwnedBy(proj'.rows, v, "side_effect")) = NonBlank(form.side_effect_name)
        /\ InKeyOrder(OwnedBy(proj'.rows, v, "mse")) = MseRows(form.mse)
        /\ \A k \in ClinicalKinds :
             {r.id : r \in OwnedBy(proj'.rows, v, k)} \cap {r.id : r \in proj.rows} = {}
        /\ {r \in proj'.rows : r.visit_id # v} = {r \in proj.rows : r.visit_id # v}

\* C25: after a visit edit the visit's symptom, medication, side-effect and
\* MSE entries are exactly the entries built from the submitted form rows:
\* every entry the visit owned before is gone and none is duplicated, for any
\* prior contents and any number of successive edits; the entries of other
\* visits are unchanged.
C25_EditReplacesEntries == [][C25_Served("edit_visit") => C25_Replaced]_vars

\* A visit that held entries was edited a second time, to a tapering entry.
C25_Witness ==
    /\ proj.pc = "visits"
    /\ proj.requests = 2
    /\ proj.last.op = "edit_visit"
    /\ \E r \in OwnedBy(proj.rows, proj.last.visit_id, "medication") : r.data.is_tapering
    /\ \E r \in proj.rows : r.visit_id # proj.last.visit_id

PreservedKinds == {"symptom", "mse", "side_effect", "stressor", "personality"}

\* C26: update_clinical on a visit leaves the visit's symptom, MSE,
\* side-effect, stressor and personality entries as they were, for any
\* submitted form (it changes the medication entries; every other visit's
\* entries stay too).
C26_UpdateClinicalFrame ==
    [][C25_Served("update_clinical") =>
          /\ \A k \in PreservedKinds :
               OwnedBy(proj'.rows, proj'.last.visit_id, k)
                   = OwnedBy(proj.rows, proj'.last.visit_id, k)
          /\ {r \in proj'.rows : r.visit_id # proj'.last.visit_id}
                 = {r \in proj.rows : r.visit_id # proj'.last.visit_id}]_vars

\* update_clinical was served on a visit that holds symptom entries and
\* its medication entries were replaced.
C26_Witness ==
    /\ proj.pc = "visits"
    /\ proj.last.op = "update_clinical"
    /\ OwnedBy(proj.rows, proj.last.visit_id, "symptom") # {}
    /\ OwnedBy(proj.rows, proj.last.visit_id, "personality") # {}
    /\ OwnedBy(proj.rows, proj.last.visit_id, "medication") # {}

C28_SameAsNormalizer(points) ==
    \A i \in DOMAIN points :
        NumberTenths(points[i].y) = NumberTenths(get_unified_dose(proj.entry.dose_mg))

\* C28: every chart path that expands medication entries (the life chart,
\* the export preview and prepare_chart_data) gives a dose text the value
\* get_unified_dose gives it, also for a text with no space between numeral
\* and unit such as "50mg".
C28_PathsAgreeWithNormalizer ==
    proj.pc = "dosepath" =>
        /\ C28_SameAsNormalizer(proj.life_chart)
        /\ C28_SameAsNormalizer(proj.prepare)
        /\ C28_SameAsNormalizer(proj.preview)

\* The same with the export preview left out.
C28_StoredPathsAgree ==
    proj.pc = "dosepath" =>
        /\ C28_SameAsNormalizer(proj.life_chart)
        /\ C28_SameAsNormalizer(proj.prepare)

\* C29: a session started by start_guest is still a guest session after the
\* request it redirects to: the GET of first_visit that follows start_guest
\* leaves session['guest'] set and renders the first-visit page in guest
\* mode (so that a later POST to a guest route is not answered 403).
C29_GuestSurvivesFirstVisit ==
    [][(proj.pc = "session" /\ proj.last.route = "start_guest"
          /\ proj'.last.route = "first_visit") =>
         (proj'.session.guest /\ proj'.last.status = 200 /\ proj'.last.guest_mode)]_vars

\* A POST to a guest route straight after start_guest is served.
C29_GuestRouteAfterStart ==
    [][(proj.pc = "session" /\ proj.last.route = "start_guest"
          /\ proj'.last.route \in {"guest_lifechart", "guest_both"}) =>
         proj'.last.status # 403]_vars

\* The result of a path holds one date for each phase, in the order onset,
\* progression, visit, the progression date floor(d/2) days after the onset
\* for the d days from the onset to the visit.
C30_Rule(result) ==
    /\ result.t = "returned"
    /\ \E o \in result.value["Onset"], p \in result.value["Progression"] :
         /\ result.value["Onset"] = {o}
         /\ result.value["Progression"] = {p}
         /\ result.value["Current"] = {VisitDay}
         /\ o <= p /\ p <= VisitDay
         /\ p = o + (VisitDay - o) \div 2

\* C30: for every First-visit entry and every duration text the projected
\* dates satisfy onset <= progression <= visit, the progression date being
\* the onset plus floor(d/2) days at day granularity, in prepare_chart_data,
\* in life_chart and in the guest projection alike.
C30_MidpointRule ==
    proj.pc = "midpoint" =>
        /\ proj.prepared # PyNone => C30_Rule(proj.prepared)
        /\ proj.chart # PyNone => C30_Rule(proj.chart)
        /\ proj.guest # PyNone => C30_Rule(proj.guest)

\* The same for the texts that parse to one day or more: the three paths
\* give the same dates.
C30_PositiveDurations ==
    (proj.pc = "midpoint" /\ get_days(proj.text) > 0) =>
        /\ proj.prepared # PyNone => C30_Rule(proj.prepared)
        /\ proj.chart # PyNone => C30_Rule(proj.chart)
        /\ proj.guest # PyNone => C30_Rule(proj.guest)
        /\ (proj.prepared # PyNone /\ proj.chart # PyNone) => proj.prepared = proj.chart
        /\ (proj.prepared # PyNone /\ proj.guest # PyNone) => proj.prepared = proj.guest

\* prepare_chart_data alone, for every text.
C30_PreparedRule ==
    (proj.pc = "midpoint" /\ proj.prepared # PyNone) =>
        /\ C30_Rule(proj.prepared)
        /\ \E o \in proj.prepared.value["Onset"] : VisitDay - o = get_days(proj.text)

====
